---- MODULE Spec2Model ----
(***************************************************************************)
(* Order Block analytics engine (webapp/charts/orderblock_analytics.py)    *)
(* and the background update service that runs it                          *)
(* (webapp/charts/data_updater.py).                                        *)
(*                                                                         *)
(* Conventions.                                                            *)
(*  - A candle batch (the DataFrame df) is a sequence of candle records;   *)
(*    positions are 1-based here, 0-based in the source, so the source's   *)
(*    range(w, len(df) - w) is (w + 1) .. (Len(df) - w).                   *)
(*  - Prices are integers.  The ATR is the exact rational                  *)
(*    <<numerator, denominator>> with denominator atr_period^(i-1); the    *)
(*    float comparisons of the source are compared exactly.                *)
(*  - Python's None is the empty sequence, a present value v is <<v>>.     *)
(*  - volume is never read by the engine and is left out of the candle.    *)
(***************************************************************************)
EXTENDS Integers, Sequences, FiniteSets, TLC

VARIABLES
    candles,        \* df: the candle batch handed to analyze
    zone_mode,      \* self.zone_mode
    pc,             \* position inside analyze: "call", "mitigate", "returned"
    order_blocks,   \* the list built by identify_order_blocks, mutated by track_mitigation
    ob_i,           \* track_mitigation: position of the outer loop (for ob in order_blocks)
    cd_i,           \* track_mitigation: candle position examined last for the current ob (0: none yet)
    result,         \* the value analyze returned last
    pipeline_ran,   \* the last analyze call went past the input validation
    runs,           \* number of analyze calls started on this batch
    first_result,   \* history: what the first analyze call returned
    observed,       \* history: per order block, the statuses seen after each replayed candle
    update_locks,       \* data_updater.update_locks: timeframe -> the Lock is held
    tpc,                \* per thread: position inside the service method it executes
    meth,               \* per thread: the method of its current or last invocation
    ttf,                \* per thread: the timeframe argument of its current or last invocation
    ret,                \* per thread: 'status' of the dict its last invocation returned ("none": in progress or never called)
    nrel,               \* history, per thread: release() calls made by its current or last invocation
    last_update_times,  \* DataUpdateService.last_update_times: timeframe -> None or Some(time)
    update_stats,       \* DataUpdateService.update_stats: timeframe -> None or Some(result)
    clock,              \* datetime.now()
    store,              \* the OrderBlock1h table: its records in insertion order (id = position)
    ob_stats,           \* update_order_blocks: created_count, updated_count, total of the last run
    multipliers,        \* the two atr_multiplier values compared, each as <<numerator, denominator>>
    df_atr,             \* atr: what calculate_atr returned (None: not called yet)
    swing_points,       \* what detect_swing_points returned for df, as <<swing_highs, swing_lows>>
    swing_points_neg,   \* what detect_swing_points returned for the price-negated df
    df_displacement,    \* what detect_displacement returned with either multiplier
    df_bos,             \* what detect_bos returned: <<bos_bullish, bos_bearish>>
    buy_trades,         \* _calculate_fifo_pnl: the caller's list of buy trade dicts
    sell_trades,        \* _calculate_fifo_pnl: the caller's list of sell trade dicts
    fifo_pc,            \* position inside _calculate_fifo_pnl
    buy_queue,          \* buy_queue: the buy dicts not fully matched, as positions in buy_trades
    sells,              \* sells: the sell dicts in timestamp order, as positions in sell_trades
    sell_i,             \* position of the for loop in sells
    sell_amount_remaining,
    realized_pnl,
    buy_amounts0,       \* history: the amounts of the buy trades when the call started
    fifo_calls,         \* how many calls of _calculate_fifo_pnl have started
    buy_trades0,        \* history: the buy trades as passed to the first call
    first_pnl           \* history: what the first call returned

pvars == <<candles, zone_mode, pc, order_blocks, ob_i, cd_i, result,
           pipeline_ran, runs, first_result, observed>>

lvars == <<update_locks, tpc, meth, ttf, ret, nrel, last_update_times, update_stats, clock>>

svars == <<store, ob_stats>>

fvars == <<multipliers, df_atr, swing_points, swing_points_neg, df_displacement, df_bos>>

tvars == <<buy_trades, sell_trades, fifo_pc, buy_queue, sells, sell_i,
           sell_amount_remaining, realized_pnl, buy_amounts0,
           fifo_calls, buy_trades0, first_pnl>>

xvars == <<svars, fvars, tvars>>

vars == <<pvars, lvars, xvars>>

---------------------------------------------------------------------------
(* Bounds of the check and configuration of the analyzer under check.      *)

MaxLen == 5          \* longest candle batch
MaxLenAny == 4       \* longest candle batch when timestamps may be malformed
NumThreads == 2      \* threads calling into the DataUpdateService singleton
MaxClock == 1        \* latest time datetime.now() reads
MaxTableLen == 7     \* most rows of the candle table
MaxLenStages == 4    \* longest candle batch the single stages are applied to
MaxLenScenario == 7  \* longest synthetic scenario batch
MaxTrades == 2       \* most buy trades, and most sell trades, of one FIFO calculation
swing_window == 1    \* OrderBlockAnalyzer(swing_window=...)
min_candles == 3     \* OrderBlockAnalyzer(min_candles=...)

atr_period == 14
query_limit == 500           \* update_order_blocks reads the latest 500 candles
atr_multiplier_num == 6      \* atr_multiplier = 1.2 = 6/5
atr_multiplier_den == 5

ZoneModes == {"conservative", "aggressive"}

\* The candle shapes batches are drawn from, as <<open, high, low, close>>.
\* Every shape satisfies low <= open, close <= high.
CandleShapes ==
    { <<2, 3, 2, 3>>,     \* bullish
      <<3, 3, 2, 2>>,     \* bearish
      <<2, 4, 2, 4>>,     \* bullish, wide
      <<1, 1, 1, 1>>,     \* flat, low
      <<0, 5, 0, 5>>,     \* bullish, full range
      <<1, 3, 0, 0>>,     \* bearish with an upper wick
      <<4, 5, 2, 5>>,     \* bullish with a lower wick
      <<3, 3, 0, 2>> }    \* bearish with a lower wick

MkCandle(ts, s) ==
    [timestamp |-> ts, open |-> s[1], high |-> s[2], low |-> s[3], close |-> s[4]]

None == << >>
Some(v) == <<v>>

---------------------------------------------------------------------------
(* Arithmetic helpers.                                                     *)

Abs(x) == IF x < 0 THEN 0 - x ELSE x
Max2(a, b) == IF a >= b THEN a ELSE b
Min2(a, b) == IF a <= b THEN a ELSE b
SetMax(S) == CHOOSE x \in S : \A y \in S : y <= x
SetMin(S) == CHOOSE x \in S : \A y \in S : x <= y

RECURSIVE Pow(_, _)
Pow(b, e) == IF e = 0 THEN 1 ELSE b * Pow(b, e - 1)

\* The positions 1..n as a sequence, and a sequence flattened.
Positions(n) == [k \in 1..n |-> k]

RECURSIVE Flatten(_)
Flatten(ss) == IF ss = << >> THEN << >> ELSE Head(ss) \o Flatten(Tail(ss))

---------------------------------------------------------------------------
(* calculate_atr: true range, then ewm(alpha = 1/period, adjust=False).    *)

TrueRange_LowMinusHigh(df, i) ==
    IF i = 1
    THEN df[1].low - df[1].high
    ELSE Max2(df[i].low - df[i].high,
              Max2(df[i].high - df[i - 1].close, df[i].low - df[i - 1].close))

TrueRange(df, i) ==
    IF i = 1
    THEN df[1].high - df[1].low     \* prev_close is NaN: max skips tr2, tr3
    ELSE Max2(df[i].high - df[i].low,
              Max2(Abs(df[i].high - df[i - 1].close),
                   Abs(df[i].low - df[i - 1].close)))

\* Numerator of ATR[i] over the denominator atr_period^(i-1):
\* y[1] = x[1];  y[i] = (1 - alpha) * y[i-1] + alpha * x[i].
\* The smoothing takes in the true range of the candle before.
RECURSIVE AtrNum_Lagged(_, _)
AtrNum_Lagged(df, i) ==
    IF i = 1
    THEN TrueRange(df, 1)
    ELSE (atr_period - 1) * AtrNum_Lagged(df, i - 1)
             + TrueRange(df, i - 1) * Pow(atr_period, i - 2)

RECURSIVE AtrNum(_, _)
AtrNum(df, i) ==
    IF i = 1
    THEN TrueRange(df, 1)
    ELSE (atr_period - 1) * AtrNum(df, i - 1) + TrueRange(df, i) * Pow(atr_period, i - 2)

calculate_atr(df) ==
    [i \in 1..Len(df) |-> <<AtrNum(df, i), Pow(atr_period, i - 1)>>]

---------------------------------------------------------------------------
(* detect_swing_points: fractal extrema over the closed window.            *)

\* Only a candle above every other candle of its window is a swing high.
IsSwingHigh_Strict(df, i) ==
    /\ i \in (swing_window + 1)..(Len(df) - swing_window)
    /\ \A j \in (i - swing_window)..(i + swing_window) : j # i => df[i].high > df[j].high

IsSwingHigh(df, i) ==
    /\ i \in (swing_window + 1)..(Len(df) - swing_window)
    /\ df[i].high = SetMax({df[j].high : j \in (i - swing_window)..(i + swing_window)})

IsSwingLow_Strict(df, i) ==
    /\ i \in (swing_window + 1)..(Len(df) - swing_window)
    /\ \A j \in (i - swing_window)..(i + swing_window) : j # i => df[i].low < df[j].low

IsSwingLow(df, i) ==
    /\ i \in (swing_window + 1)..(Len(df) - swing_window)
    /\ df[i].low = SetMin({df[j].low : j \in (i - swing_window)..(i + swing_window)})

swing_highs_of(df) ==
    LET idx == SelectSeq(Positions(Len(df)), LAMBDA i : IsSwingHigh(df, i))
    IN  [k \in 1..Len(idx) |->
            [index |-> idx[k], level |-> df[idx[k]].high, timestamp |-> df[idx[k]].timestamp]]

swing_lows_of(df) ==
    LET idx == SelectSeq(Positions(Len(df)), LAMBDA i : IsSwingLow(df, i))
    IN  [k \in 1..Len(idx) |->
            [index |-> idx[k], level |-> df[idx[k]].low, timestamp |-> df[idx[k]].timestamp]]

---------------------------------------------------------------------------
(* detect_displacement: range >= atr_multiplier * ATR.                     *)

\* With atr_multiplier = k[1] / k[2], k[2] > 0.
detect_displacement_Below(df, atr, k) ==
    [i \in 1..Len(df) |->
        (df[i].high - df[i].low) * k[2] * atr[i][2] <= k[1] * atr[i][1]]

detect_displacement_with(df, atr, k) ==
    [i \in 1..Len(df) |->
        (df[i].high - df[i].low) * k[2] * atr[i][2] >= k[1] * atr[i][1]]

detect_displacement(df, atr) ==
    detect_displacement_with(df, atr, <<atr_multiplier_num, atr_multiplier_den>>)

---------------------------------------------------------------------------
(* detect_bos: the swing pointer advances over every swing whose index is  *)
(* <= i before candle i is compared.                                       *)

RECURSIVE AdvanceSwing(_, _, _)
AdvanceSwing(swings, ptr, i) ==
    IF ptr <= Len(swings) /\ swings[ptr].index <= i
    THEN AdvanceSwing(swings, ptr + 1, i)
    ELSE ptr

\* The swing at index i itself is not applied before candle i is compared.
LastSwingLevel_Before(swings, i) ==
    LET ptr == AdvanceSwing(swings, 1, i - 1)
    IN  IF ptr = 1 THEN None ELSE Some(swings[ptr - 1].level)

LastSwingLevel(swings, i) ==
    LET ptr == AdvanceSwing(swings, 1, i)
    IN  IF ptr = 1 THEN None ELSE Some(swings[ptr - 1].level)

\* A close equal to the swing level counts as a break.
detect_bos_bullish_OrEqual(df, swing_highs) ==
    [i \in 1..Len(df) |->
        LET last_swing_high == LastSwingLevel(swing_highs, i)
        IN  last_swing_high # None /\ df[i].close >= last_swing_high[1]]

detect_bos_bullish(df, swing_highs) ==
    [i \in 1..Len(df) |->
        LET last_swing_high == LastSwingLevel(swing_highs, i)
        IN  last_swing_high # None /\ df[i].close > last_swing_high[1]]

detect_bos_bearish(df, swing_lows) ==
    [i \in 1..Len(df) |->
        LET last_swing_low == LastSwingLevel(swing_lows, i)
        IN  last_swing_low # None /\ df[i].close < last_swing_low[1]]

---------------------------------------------------------------------------
(* identify_order_blocks: one candidate per BOS candle, bullish events     *)
(* first, then bearish events, each in BOS-index order.                    *)

IsBearishCandle_OrFlat(c) == c.close <= c.open

IsBearishCandle(c) == c.close < c.open
IsBullishCandle(c) == c.close > c.open

\* The origin candle searched for: the opposite-coloured candle.
IsOriginCandle_SameColour(c, direction) ==
    IF direction = "bullish" THEN IsBullishCandle(c) ELSE IsBearishCandle(c)

IsOriginCandle(c, direction) ==
    IF direction = "bullish" THEN IsBearishCandle(c) ELSE IsBullishCandle(c)

\* <<price_low, price_high>> of the zone on the origin candle.
ZoneOf_SwappedBody(ob_candle, mode) ==
    IF mode = "conservative"
    THEN <<ob_candle.open, ob_candle.close>>
    ELSE <<ob_candle.low, ob_candle.high>>

ZoneOf(ob_candle, mode) ==
    IF mode = "conservative"
    THEN <<Min2(ob_candle.open, ob_candle.close), Max2(ob_candle.open, ob_candle.close)>>
    ELSE <<ob_candle.low, ob_candle.high>>

\* next((s for s in reversed(swings) if s['index'] < bos_idx), None), then
\* its level, or the close of the BOS candle.
BosLevel_EarliestSwing(df, swings, bos_idx) ==
    LET prior == {k \in 1..Len(swings) : swings[k].index < bos_idx}
    IN  IF prior = {} THEN df[bos_idx].close ELSE swings[SetMin(prior)].level

BosLevel(df, swings, bos_idx) ==
    LET prior == {k \in 1..Len(swings) : swings[k].index < bos_idx}
    IN  IF prior = {} THEN df[bos_idx].close ELSE swings[SetMax(prior)].level

\* The order blocks one BOS candle contributes: none or one.
CandidateOrderBlock(df, displacement, bos, atr, swings, direction, mode, bos_idx) ==
    LET displacement_before == {i \in 1..(bos_idx - 1) : displacement[i]}
    IN  IF ~bos[bos_idx] \/ displacement_before = {}
        THEN << >>
        ELSE
          LET last_displacement_idx == SetMax(displacement_before)
              origin_candles ==
                  {i \in 1..(last_displacement_idx - 1) : IsOriginCandle(df[i], direction)}
          IN  IF origin_candles = {}
              THEN << >>
              ELSE
                LET ob_idx == SetMax(origin_candles)
                    ob_candle == df[ob_idx]
                    zone == ZoneOf(ob_candle, mode)
                IN  << [direction          |-> direction,
                        created_ts_ms      |-> ob_candle.timestamp,
                        valid_from_ts_ms   |-> ob_candle.timestamp,
                        valid_to_ts_ms     |-> None,
                        price_low          |-> zone[1],
                        price_high         |-> zone[2],
                        atr14              |-> atr[ob_idx],
                        bos_level          |-> BosLevel(df, swings, bos_idx),
                        displacement_range |-> df[last_displacement_idx].high
                                                 - df[last_displacement_idx].low,
                        status             |-> "fresh"] >>

\* Only the first order block of each origin candle is kept.
OrderBlocksOf_Deduplicated(df, displacement, bos, atr, swings, direction, mode) ==
    LET all == Flatten([bos_idx \in 1..Len(df) |->
                   CandidateOrderBlock(df, displacement, bos, atr, swings, direction, mode, bos_idx)])
        keep == SelectSeq(Positions(Len(all)),
                          LAMBDA k : \A j \in 1..(k - 1) :
                                        all[j].created_ts_ms # all[k].created_ts_ms)
    IN  [q \in 1..Len(keep) |-> all[keep[q]]]

OrderBlocksOf(df, displacement, bos, atr, swings, direction, mode) ==
    Flatten([bos_idx \in 1..Len(df) |->
        CandidateOrderBlock(df, displacement, bos, atr, swings, direction, mode, bos_idx)])

identify_order_blocks_BearishFirst(df, displacement, bos_bullish, bos_bearish, atr, swing_highs, swing_lows, mode) ==
    OrderBlocksOf(df, displacement, bos_bearish, atr, swing_lows, "bearish", mode)
        \o OrderBlocksOf(df, displacement, bos_bullish, atr, swing_highs, "bullish", mode)

identify_order_blocks(df, displacement, bos_bullish, bos_bearish, atr, swing_highs, swing_lows, mode) ==
    OrderBlocksOf(df, displacement, bos_bullish, atr, swing_highs, "bullish", mode)
        \o OrderBlocksOf(df, displacement, bos_bearish, atr, swing_lows, "bearish", mode)

\* Steps 1 to 5 of analyze.
IdentifiedOrderBlocks(df, mode) ==
    LET atr == calculate_atr(df)
        swing_highs == swing_highs_of(df)
        swing_lows == swing_lows_of(df)
        displacement == detect_displacement(df, atr)
        bos_bullish == detect_bos_bullish(df, swing_highs)
        bos_bearish == detect_bos_bearish(df, swing_lows)
    IN  identify_order_blocks(df, displacement, bos_bullish, bos_bearish, atr,
                              swing_highs, swing_lows, mode)

---------------------------------------------------------------------------
(* track_mitigation: what one replayed candle does to one order block.     *)

FutureCandles_FromOrigin(df, created_ts) ==
    SelectSeq(Positions(Len(df)), LAMBDA i : df[i].timestamp >= created_ts)

\* df[df['timestamp'] > created_ts], as the row positions in row order.
FutureCandles(df, created_ts) ==
    SelectSeq(Positions(Len(df)), LAMBDA i : df[i].timestamp > created_ts)

TouchesZone(ob, candle) ==
    candle.low <= ob.price_high /\ candle.high >= ob.price_low

TouchStatus_Recomputed(status, touches) ==
    IF touches THEN "touched" ELSE "fresh"

TouchStatus(status, touches) ==
    IF touches /\ status = "fresh" THEN "touched" ELSE status

InvalidatesZone_OnlyTouched(ob, candle) ==
    /\ ob.status # "fresh"
    /\ IF ob.direction = "bullish"
       THEN candle.close < ob.price_low
       ELSE candle.close > ob.price_high

InvalidatesZone(ob, candle) ==
    IF ob.direction = "bullish"
    THEN candle.close < ob.price_low
    ELSE candle.close > ob.price_high

Invalidate_StatusOnly(ob, candle) ==
    [ob EXCEPT !.status = "invalid"]

Invalidate(ob, candle) ==
    [ob EXCEPT !.status = "invalid", !.valid_to_ts_ms = Some(candle.timestamp)]

ReplayCandle(ob, candle) ==
    LET touched == [ob EXCEPT !.status = TouchStatus(ob.status, TouchesZone(ob, candle))]
    IN  IF InvalidatesZone(ob, candle) THEN Invalidate(touched, candle) ELSE touched

\* The replay of an order block with valid_to_ts_ms set resumes after that
\* timestamp.
RECURSIVE ReplayFrom_ResumeAfterValidTo(_, _, _, _)
ReplayFrom_ResumeAfterValidTo(df, future_candles, k, ob) ==
    IF k > Len(future_candles)
    THEN ob
    ELSE LET candle == df[future_candles[k]]
         IN  IF ob.valid_to_ts_ms # None /\ candle.timestamp <= ob.valid_to_ts_ms[1]
             THEN ReplayFrom_ResumeAfterValidTo(df, future_candles, k + 1, ob)
             ELSE IF InvalidatesZone(ob, candle)
             THEN ReplayCandle(ob, candle)
             ELSE ReplayFrom_ResumeAfterValidTo(df, future_candles, k + 1,
                                                ReplayCandle(ob, candle))

\* for ob in order_blocks: the candles after the order block are replayed in
\* row order until one invalidates it.
RECURSIVE ReplayFrom(_, _, _, _)
ReplayFrom(df, future_candles, k, ob) ==
    IF k > Len(future_candles)
    THEN ob
    ELSE LET candle == df[future_candles[k]]
         IN  IF InvalidatesZone(ob, candle)
             THEN ReplayCandle(ob, candle)
             ELSE ReplayFrom(df, future_candles, k + 1, ReplayCandle(ob, candle))

\* Only the latest candle is replayed.
track_mitigation_LatestCandleOnly(df, obs) ==
    [k \in 1..Len(obs) |->
        LET future_candles == FutureCandles(df, obs[k].created_ts_ms)
        IN  ReplayFrom(df, future_candles, Max2(1, Len(future_candles)), obs[k])]

track_mitigation(df, obs) ==
    [k \in 1..Len(obs) |->
        ReplayFrom(df, FutureCandles(df, obs[k].created_ts_ms), 1, obs[k])]


---------------------------------------------------------------------------
(* analyze, as a sequence of steps.                                        *)

Insufficient_OffByOne(df) == Len(df) = 0 \/ Len(df) <= min_candles

\* df.empty or len(df) < self.min_candles
Insufficient(df) == Len(df) = 0 \/ Len(df) < min_candles

\* analyze as the function (candles, config) -> order blocks.
analyze(df, mode) ==
    IF Insufficient(df)
    THEN << >>
    ELSE track_mitigation(df, IdentifiedOrderBlocks(df, mode))

AnalyzeInsufficient ==
    /\ pc = "call"
    /\ Insufficient(candles)
    /\ pc' = "returned"
    /\ result' = << >>
    /\ pipeline_ran' = FALSE
    /\ IF runs = 1 THEN first_result' = << >> ELSE UNCHANGED first_result
    /\ UNCHANGED <<candles, zone_mode, order_blocks, ob_i, cd_i, runs, observed>>
    /\ UNCHANGED lvars
    /\ UNCHANGED xvars

AnalyzeIdentify_Accumulate ==
    /\ pc = "call"
    /\ ~Insufficient(candles)
    /\ order_blocks' = order_blocks \o IdentifiedOrderBlocks(candles, zone_mode)
    /\ observed' = [k \in 1..Len(order_blocks') |-> <<order_blocks'[k].status>>]
    /\ pipeline_ran' = TRUE
    /\ pc' = "mitigate"
    /\ ob_i' = 1
    /\ cd_i' = 0
    /\ UNCHANGED <<candles, zone_mode, result, runs, first_result>>
    /\ UNCHANGED lvars
    /\ UNCHANGED xvars

AnalyzeIdentify ==
    /\ pc = "call"
    /\ ~Insufficient(candles)
    /\ order_blocks' = IdentifiedOrderBlocks(candles, zone_mode)
    /\ observed' = [k \in 1..Len(order_blocks') |-> <<order_blocks'[k].status>>]
    /\ pipeline_ran' = TRUE
    /\ pc' = "mitigate"
    /\ ob_i' = 1
    /\ cd_i' = 0
    /\ UNCHANGED <<candles, zone_mode, result, runs, first_result>>
    /\ UNCHANGED lvars
    /\ UNCHANGED xvars

\* One iteration of the inner loop of track_mitigation (or the `continue`
\* of the outer loop when no candle follows the order block).
TrackMitigationStep_InvalidatesAll ==
    /\ pc = "mitigate"
    /\ ob_i <= Len(order_blocks)
    /\ LET ob == order_blocks[ob_i]
           future_candles == FutureCandles(candles, ob.created_ts_ms)
       IN  IF Len(future_candles) = 0
           THEN /\ ob_i' = ob_i + 1
                /\ cd_i' = 0
                /\ UNCHANGED <<order_blocks, observed>>
           ELSE LET candle == candles[future_candles[cd_i + 1]]
                    new_ob == ReplayCandle(ob, candle)
                IN  /\ order_blocks' =
                          [k \in 1..Len(order_blocks) |->
                              IF k = ob_i
                              THEN new_ob
                              ELSE IF InvalidatesZone(ob, candle)
                                   THEN Invalidate(order_blocks[k], candle)
                                   ELSE order_blocks[k]]
                    /\ observed' = [observed EXCEPT ![ob_i] = Append(@, new_ob.status)]
                    /\ IF InvalidatesZone(ob, candle) \/ cd_i + 1 = Len(future_candles)
                       THEN ob_i' = ob_i + 1 /\ cd_i' = 0
                       ELSE ob_i' = ob_i /\ cd_i' = cd_i + 1
    /\ UNCHANGED <<candles, zone_mode, pc, result, pipeline_ran, runs, first_result>>
    /\ UNCHANGED lvars
    /\ UNCHANGED xvars

TrackMitigationStep ==
    /\ pc = "mitigate"
    /\ ob_i <= Len(order_blocks)
    /\ LET ob == order_blocks[ob_i]
           future_candles == FutureCandles(candles, ob.created_ts_ms)
       IN  IF Len(future_candles) = 0
           THEN /\ ob_i' = ob_i + 1
                /\ cd_i' = 0
                /\ UNCHANGED <<order_blocks, observed>>
           ELSE LET candle == candles[future_candles[cd_i + 1]]
                    new_ob == ReplayCandle(ob, candle)
                IN  /\ order_blocks' = [order_blocks EXCEPT ![ob_i] = new_ob]
                    /\ observed' = [observed EXCEPT ![ob_i] = Append(@, new_ob.status)]
                    /\ IF InvalidatesZone(ob, candle) \/ cd_i + 1 = Len(future_candles)
                       THEN ob_i' = ob_i + 1 /\ cd_i' = 0
                       ELSE ob_i' = ob_i /\ cd_i' = cd_i + 1
    /\ UNCHANGED <<candles, zone_mode, pc, result, pipeline_ran, runs, first_result>>
    /\ UNCHANGED lvars
    /\ UNCHANGED xvars

AnalyzeReturn ==
    /\ pc = "mitigate"
    /\ ob_i > Len(order_blocks)
    /\ pc' = "returned"
    /\ result' = order_blocks
    /\ IF runs = 1 THEN first_result' = order_blocks ELSE UNCHANGED first_result
    /\ UNCHANGED <<candles, zone_mode, order_blocks, ob_i, cd_i, pipeline_ran, runs, observed>>
    /\ UNCHANGED lvars
    /\ UNCHANGED xvars

\* analyze is called again on the same batch with the same analyzer.
AnalyzeAgain ==
    /\ pc = "returned"
    /\ runs = 1
    /\ pc' = "call"
    /\ runs' = 2
    /\ UNCHANGED <<candles, zone_mode, order_blocks, ob_i, cd_i, result,
                   pipeline_ran, first_result, observed>>
    /\ UNCHANGED lvars
    /\ UNCHANGED xvars

---------------------------------------------------------------------------
(* DataUpdateService.update_timeframe and update_order_blocks, called by   *)
(* any number of threads on the singleton service.                         *)

\* Two of the four keys of update_locks ("15m", "1h", "4h", "1d"); the code
\* treats every key alike.
Timeframes == {"1h", "4h"}
Threads == 1..NumThreads

InBody == {"try", "store", "finally"}       \* between acquire() and release()
InOrderBlocks == {"ob_analyze", "ob_upsert"}

\* update_locks[timeframe].acquire(blocking=False): the invocation is skipped
\* when the lock is held, and enters the try block holding it otherwise.
UT_Call_NoTryAcquire(t, tf) ==
    /\ tpc[t] = "idle"
    /\ meth' = [meth EXCEPT ![t] = "update_timeframe"]
    /\ ttf' = [ttf EXCEPT ![t] = tf]
    /\ update_locks' = [update_locks EXCEPT ![tf] = TRUE]
    /\ tpc' = [tpc EXCEPT ![t] = "try"]
    /\ ret' = [ret EXCEPT ![t] = "none"]
    /\ nrel' = [nrel EXCEPT ![t] = 0]
    /\ UNCHANGED <<last_update_times, update_stats, clock>>
    /\ UNCHANGED pvars
    /\ UNCHANGED xvars

UT_Call(t, tf) ==
    /\ tpc[t] = "idle"
    /\ meth' = [meth EXCEPT ![t] = "update_timeframe"]
    /\ ttf' = [ttf EXCEPT ![t] = tf]
    /\ nrel' = [nrel EXCEPT ![t] = 0]
    /\ IF update_locks[tf]
       THEN /\ ret' = [ret EXCEPT ![t] = "skipped"]
            /\ UNCHANGED <<update_locks, tpc>>
       ELSE /\ update_locks' = [update_locks EXCEPT ![tf] = TRUE]
            /\ tpc' = [tpc EXCEPT ![t] = "try"]
            /\ ret' = [ret EXCEPT ![t] = "none"]
    /\ UNCHANGED <<last_update_times, update_stats, clock>>
    /\ UNCHANGED pvars
    /\ UNCHANGED xvars

\* manager.update_timeframe(timeframe) returns the number of inserted candles.
UT_UpdateOk(t) ==
    /\ tpc[t] = "try"
    /\ tpc' = [tpc EXCEPT ![t] = "store"]
    /\ UNCHANGED <<update_locks, meth, ttf, ret, nrel, last_update_times, update_stats, clock>>
    /\ UNCHANGED pvars
    /\ UNCHANGED xvars

\* Anything in the try block raises: the except clause builds the error
\* result and control passes to the finally clause.
UT_UpdateRaises_NoFinally(t) ==
    /\ tpc[t] = "try"
    /\ tpc' = [tpc EXCEPT ![t] = "idle"]
    /\ ret' = [ret EXCEPT ![t] = "error"]
    /\ UNCHANGED <<update_locks, meth, ttf, nrel, last_update_times, update_stats, clock>>
    /\ UNCHANGED pvars
    /\ UNCHANGED xvars

UT_UpdateRaises(t) ==
    /\ tpc[t] = "try"
    /\ tpc' = [tpc EXCEPT ![t] = "finally"]
    /\ ret' = [ret EXCEPT ![t] = "error"]
    /\ UNCHANGED <<update_locks, meth, ttf, nrel, last_update_times, update_stats, clock>>
    /\ UNCHANGED pvars
    /\ UNCHANGED xvars

\* self.last_update_times[timeframe] = now; self.update_stats[timeframe] = result
UT_Store(t) ==
    /\ tpc[t] = "store"
    /\ last_update_times' = [last_update_times EXCEPT ![ttf[t]] = Some(clock)]
    /\ update_stats' = [update_stats EXCEPT ![ttf[t]] =
                           Some([timeframe |-> ttf[t], status |-> "success", timestamp |-> clock])]
    /\ tpc' = [tpc EXCEPT ![t] = "finally"]
    /\ ret' = [ret EXCEPT ![t] = "success"]
    /\ UNCHANGED <<update_locks, meth, ttf, nrel, clock>>
    /\ UNCHANGED pvars
    /\ UNCHANGED xvars

\* finally: update_locks[timeframe].release(), then the method returns.
UT_Release(t) ==
    /\ tpc[t] = "finally"
    /\ update_locks' = [update_locks EXCEPT ![ttf[t]] = FALSE]
    /\ nrel' = [nrel EXCEPT ![t] = @ + 1]
    /\ tpc' = [tpc EXCEPT ![t] = "idle"]
    /\ UNCHANGED <<meth, ttf, ret, last_update_times, update_stats, clock>>
    /\ UNCHANGED pvars
    /\ UNCHANGED xvars

\* update_order_blocks(timeframe): load the candles and analyze them, ...
OB_Call(t, tf) ==
    /\ tpc[t] = "idle"
    /\ meth' = [meth EXCEPT ![t] = "update_order_blocks"]
    /\ ttf' = [ttf EXCEPT ![t] = tf]
    /\ tpc' = [tpc EXCEPT ![t] = "ob_analyze"]
    /\ ret' = [ret EXCEPT ![t] = "none"]
    /\ nrel' = [nrel EXCEPT ![t] = 0]
    /\ UNCHANGED <<update_locks, last_update_times, update_stats, clock>>
    /\ UNCHANGED pvars
    /\ UNCHANGED xvars

\* ... then upsert what was found, ...
OB_Analyzed(t) ==
    /\ tpc[t] = "ob_analyze"
    /\ tpc' = [tpc EXCEPT ![t] = "ob_upsert"]
    /\ UNCHANGED <<update_locks, meth, ttf, ret, nrel, last_update_times, update_stats, clock>>
    /\ UNCHANGED pvars
    /\ UNCHANGED xvars

\* ... and return the statistics, or the error result of the except clause.
OB_Return(t) ==
    /\ tpc[t] \in InOrderBlocks
    /\ tpc' = [tpc EXCEPT ![t] = "idle"]
    /\ ret' = [ret EXCEPT ![t] = IF tpc[t] = "ob_upsert" THEN "success" ELSE "error"]
    /\ UNCHANGED <<update_locks, meth, ttf, nrel, last_update_times, update_stats, clock>>
    /\ UNCHANGED pvars
    /\ UNCHANGED xvars

\* Time passes: datetime.now() reads a later time.
Tick ==
    /\ clock < MaxClock
    /\ clock' = clock + 1
    /\ UNCHANGED <<update_locks, tpc, meth, ttf, ret, nrel, last_update_times, update_stats>>
    /\ UNCHANGED pvars
    /\ UNCHANGED xvars

---------------------------------------------------------------------------
(* update_order_blocks run to completion, one run after the other: the     *)
(* candle table is analysed and the emitted order blocks are upserted into *)
(* the OrderBlock1h table.                                                 *)

\* The candle shapes the rows of the candle table are drawn from.
TableShapes ==
    { <<3, 3, 2, 2>>,     \* bearish
      <<2, 4, 2, 4>>,     \* bullish, wide
      <<1, 1, 1, 1>>,     \* flat, low
      <<4, 5, 4, 5>>,     \* bullish
      <<5, 6, 5, 6>>,     \* bullish, higher
      <<6, 7, 6, 7>> }    \* bullish, highest

\* The shapes row n + 1 is drawn from: the histories explored open with a
\* bearish or a flat candle, then a bearish or a wide bullish one, then a
\* bearish one; every later row is any of the shapes.
ArrivalShapes(n) ==
    CASE n = 0 -> {<<3, 3, 2, 2>>, <<1, 1, 1, 1>>}
      [] n = 1 -> {<<3, 3, 2, 2>>, <<2, 4, 2, 4>>}
      [] n = 2 -> {<<3, 3, 2, 2>>}
      [] OTHER -> TableShapes

\* filter(symbol='BTC/EUR', direction=ob['direction'], created_ts_ms=ob['created_ts_ms'])
KeyMatches_WithBosLevel(rec, ob) ==
    /\ rec.symbol = "BTC/EUR"
    /\ rec.direction = ob.direction
    /\ rec.created_ts_ms = ob.created_ts_ms
    /\ rec.bos_level = ob.bos_level

KeyMatches(rec, ob) ==
    /\ rec.symbol = "BTC/EUR"
    /\ rec.direction = ob.direction
    /\ rec.created_ts_ms = ob.created_ts_ms

\* OrderBlock1h.objects.create(...): the new row, its id assigned by the table.
NewRecord(id, ob) ==
    [id                 |-> id,
     symbol             |-> "BTC/EUR",
     direction          |-> ob.direction,
     created_ts_ms      |-> ob.created_ts_ms,
     valid_from_ts_ms   |-> ob.valid_from_ts_ms,
     valid_to_ts_ms     |-> ob.valid_to_ts_ms,
     price_low          |-> ob.price_low,
     price_high         |-> ob.price_high,
     atr14              |-> ob.atr14,
     bos_level          |-> ob.bos_level,
     displacement_range |-> ob.displacement_range,
     status             |-> ob.status]

\* One iteration of `for ob in order_blocks`, on acc = the table rows and the
\* two counters.  .first() takes the matching row the query returns first;
\* here that is the one with the least id.
UpsertOne_AlwaysCreate(acc, ob) ==
    [acc EXCEPT !.rows = Append(@, NewRecord(Len(@) + 1, ob)),
                !.created = @ + 1]

UpsertOne(acc, ob) ==
    LET matching == {k \in 1..Len(acc.rows) : KeyMatches(acc.rows[k], ob)}
    IN  IF matching # {}
        THEN LET existing == SetMin(matching)
             IN  IF acc.rows[existing].status # ob.status
                 THEN [acc EXCEPT !.rows[existing].status = ob.status,
                                  !.rows[existing].valid_to_ts_ms = ob.valid_to_ts_ms,
                                  !.updated = @ + 1]
                 ELSE acc
        ELSE [acc EXCEPT !.rows = Append(@, NewRecord(Len(@) + 1, ob)),
                         !.created = @ + 1]

RECURSIVE UpsertFrom(_, _, _)
UpsertFrom(acc, obs, k) ==
    IF k > Len(obs) THEN acc ELSE UpsertFrom(UpsertOne(acc, obs[k]), obs, k + 1)

Upsert(rows, obs) == UpsertFrom([rows |-> rows, created |-> 0, updated |-> 0], obs, 1)

\* model.objects.order_by('-timestamp')[:500], reversed to chronological order.
LatestCandles(table) ==
    SubSeq(table, Max2(1, Len(table) - query_limit + 1), Len(table))

\* update_order_blocks('1h'), from the query of the candle table to the
\* returned statistics.
UpdateOrderBlocks ==
    /\ pc = "table"
    /\ IF Len(candles) = 0
       THEN /\ ob_stats' = [status |-> "error", created |-> 0, updated |-> 0, total |-> 0]
            /\ UNCHANGED <<result, store>>
       ELSE LET emitted == analyze(LatestCandles(candles), "conservative")
                acc == Upsert(store, emitted)
            IN  /\ result' = emitted
                /\ store' = acc.rows
                /\ ob_stats' = [status |-> "success", created |-> acc.created,
                                updated |-> acc.updated, total |-> Len(emitted)]
    /\ UNCHANGED <<candles, zone_mode, pc, order_blocks, ob_i, cd_i,
                   pipeline_ran, runs, first_result, observed>>
    /\ UNCHANGED <<lvars, fvars, tvars>>

\* A candle with a later timestamp is inserted into the candle table.
CandleArrives ==
    /\ pc = "table"
    /\ Len(candles) < MaxTableLen
    /\ \E s \in ArrivalShapes(Len(candles)) :
          candles' = Append(candles, MkCandle(Len(candles) + 1, s))
    /\ UNCHANGED <<zone_mode, pc, order_blocks, ob_i, cd_i, result,
                   pipeline_ran, runs, first_result, observed>>
    /\ UNCHANGED lvars
    /\ UNCHANGED xvars

---------------------------------------------------------------------------
(* The stages of analyze applied one by one to a batch: calculate_atr,     *)
(* detect_swing_points (on the batch and on its price-negated image) and   *)
(* detect_displacement (with two values of atr_multiplier).                *)

\* The values of atr_multiplier compared, as <<numerator, denominator>>.
Multipliers == {<<0, 1>>, <<6, 5>>, <<2, 1>>, <<3, 1>>}

\* k1 <= k2 for two multipliers with positive denominators.
MultiplierLeq(k1, k2) == k1[1] * k2[2] <= k2[1] * k1[2]

\* The batch with every price negated: high' = -low, low' = -high.
Negated(df) ==
    [i \in 1..Len(df) |->
        [timestamp |-> df[i].timestamp,
         open      |-> 0 - df[i].open,
         high      |-> 0 - df[i].low,
         low       |-> 0 - df[i].high,
         close     |-> 0 - df[i].close]]

\* atr = self.calculate_atr(df)
ApplyCalculateAtr ==
    /\ pc = "stage_atr"
    /\ df_atr' = Some(calculate_atr(candles))
    /\ pc' = "stage_swings"
    /\ UNCHANGED <<candles, zone_mode, order_blocks, ob_i, cd_i, result,
                   pipeline_ran, runs, first_result, observed>>
    /\ UNCHANGED <<multipliers, swing_points, swing_points_neg, df_displacement, df_bos>>
    /\ UNCHANGED <<lvars, svars, tvars>>

\* swing_highs, swing_lows = self.detect_swing_points(df), for df and for
\* the negated df.
ApplyDetectSwingPoints ==
    /\ pc = "stage_swings"
    /\ swing_points' = Some(<<swing_highs_of(candles), swing_lows_of(candles)>>)
    /\ swing_points_neg' =
           Some(<<swing_highs_of(Negated(candles)), swing_lows_of(Negated(candles))>>)
    /\ pc' = "stage_displacement"
    /\ UNCHANGED <<candles, zone_mode, order_blocks, ob_i, cd_i, result,
                   pipeline_ran, runs, first_result, observed>>
    /\ UNCHANGED <<multipliers, df_atr, df_displacement, df_bos>>
    /\ UNCHANGED <<lvars, svars, tvars>>

\* displacement = self.detect_displacement(df, atr), by an
\* analyzer with atr_multiplier = multipliers[1] and by one with multipliers[2].
ApplyDetectDisplacement ==
    /\ pc = "stage_displacement"
    /\ df_displacement' =
           Some(<<detect_displacement_with(candles, df_atr[1], multipliers[1]),
                  detect_displacement_with(candles, df_atr[1], multipliers[2])>>)
    /\ pc' = "stage_bos"
    /\ UNCHANGED <<candles, zone_mode, order_blocks, ob_i, cd_i, result,
                   pipeline_ran, runs, first_result, observed>>
    /\ UNCHANGED <<multipliers, df_atr, swing_points, swing_points_neg, df_bos>>
    /\ UNCHANGED <<lvars, svars, tvars>>

\* bos_bullish, bos_bearish = self.detect_bos(df, swing_highs, swing_lows)
ApplyDetectBos ==
    /\ pc = "stage_bos"
    /\ df_bos' = Some(<<detect_bos_bullish(candles, swing_points[1][1]),
                        detect_bos_bearish(candles, swing_points[1][2])>>)
    /\ pc' = "stage_identify"
    /\ UNCHANGED <<candles, zone_mode, order_blocks, ob_i, cd_i, result,
                   pipeline_ran, runs, first_result, observed>>
    /\ UNCHANGED <<multipliers, df_atr, swing_points, swing_points_neg, df_displacement>>
    /\ UNCHANGED <<lvars, svars, tvars>>

\* order_blocks = self.identify_order_blocks(df, displacement, bos_bullish,
\*     bos_bearish, atr, swing_highs, swing_lows)
ApplyIdentifyOrderBlocks ==
    /\ pc = "stage_identify"
    /\ order_blocks' = identify_order_blocks(candles, df_displacement[1][1],
                                             df_bos[1][1], df_bos[1][2], df_atr[1],
                                             swing_points[1][1], swing_points[1][2],
                                             zone_mode)
    /\ pc' = "stage_done"
    /\ UNCHANGED <<candles, zone_mode, ob_i, cd_i, result,
                   pipeline_ran, runs, first_result, observed>>
    /\ UNCHANGED <<lvars, xvars>>

\* order_blocks = self.track_mitigation(order_blocks, df); the list returned
\* is kept in result.
ApplyTrackMitigation ==
    /\ pc = "stage_done"
    /\ order_blocks' = track_mitigation(candles, order_blocks)
    /\ result' = order_blocks'
    /\ pc' = "stage_mitigated"
    /\ UNCHANGED <<candles, zone_mode, ob_i, cd_i,
                   pipeline_ran, runs, first_result, observed>>
    /\ UNCHANGED <<lvars, xvars>>

\* track_mitigation is called again, on the list it returned and the same df.
ApplyTrackMitigationAgain ==
    /\ pc = "stage_mitigated"
    /\ order_blocks' = track_mitigation(candles, order_blocks)
    /\ pc' = "stage_mitigated_twice"
    /\ UNCHANGED <<candles, zone_mode, ob_i, cd_i, result,
                   pipeline_ran, runs, first_result, observed>>
    /\ UNCHANGED <<lvars, xvars>>

---------------------------------------------------------------------------
(* analyze run to completion on a synthetic scenario batch.                *)

\* Scenario A, scaled down: n flat candles at price 100, except a
\* displacement candle at row d that rises to 102 and a candle at row b,
\* within 5 rows after it, that closes at c.
FlatShape == <<100, 100, 100, 100>>

ScenarioA(n, d, b, c) ==
    [i \in 1..n |->
        MkCandle(i, IF i = d THEN <<100, 102, 100, 102>>
                    ELSE IF i = b THEN <<100, c, 100, c>>
                    ELSE FlatShape)]

\* order_blocks = analyzer.analyze(df), as one step.
AnalyzeCall ==
    /\ pc = "call"
    /\ result' = analyze(candles, zone_mode)
    /\ order_blocks' = result'
    /\ pipeline_ran' = ~Insufficient(candles)
    /\ pc' = "returned"
    /\ UNCHANGED <<candles, zone_mode, ob_i, cd_i, runs, first_result, observed>>
    /\ UNCHANGED lvars
    /\ UNCHANGED xvars

---------------------------------------------------------------------------
(* TradingPerformanceAnalyzer._calculate_fifo_pnl.  A trade dict is a     *)
(* record with timestamp, amount and price; amounts and prices are exact   *)
(* (Decimal in the source, integers here).                                  *)

TradeTimestamps == {1, 2}
TradeAmounts == {1, 2}
TradePrices == {1, 3}

Trades == [timestamp : TradeTimestamps, amount : TradeAmounts, price : TradePrices]

\* sorted(trades, key=lambda x: x['timestamp']): the positions of the list in
\* timestamp order; the sort is stable, equal timestamps keep the list order.
SortsBefore(trades, j, k) ==
    \/ trades[j].timestamp < trades[k].timestamp
    \/ trades[j].timestamp = trades[k].timestamp /\ j < k

sorted_by_timestamp(trades) ==
    [r \in 1..Len(trades) |->
        CHOOSE k \in 1..Len(trades) :
            Cardinality({j \in 1..Len(trades) : SortsBefore(trades, j, k)}) = r - 1]

\* buys = sorted(...); sells = sorted(...); buy_queue = buys.copy(); realized_pnl = 0
FifoStart ==
    /\ fifo_pc = "start"
    /\ buy_queue' = sorted_by_timestamp(buy_trades)
    /\ sells' = sorted_by_timestamp(sell_trades)
    /\ realized_pnl' = 0
    /\ sell_i' = 0
    /\ fifo_pc' = "for"
    /\ UNCHANGED <<buy_trades, sell_trades, sell_amount_remaining, buy_amounts0>>
    /\ UNCHANGED <<fifo_calls, buy_trades0, first_pnl>>
    /\ UNCHANGED <<pvars, lvars, svars, fvars>>

\* for sell in sells: sell_amount_remaining = sell['amount']
FifoNextSell ==
    /\ fifo_pc = "for"
    /\ sell_i < Len(sells)
    /\ sell_i' = sell_i + 1
    /\ sell_amount_remaining' = sell_trades[sells[sell_i + 1]].amount
    /\ fifo_pc' = "while"
    /\ UNCHANGED <<buy_trades, sell_trades, buy_queue, sells, realized_pnl, buy_amounts0>>
    /\ UNCHANGED <<fifo_calls, buy_trades0, first_pnl>>
    /\ UNCHANGED <<pvars, lvars, svars, fvars>>

\* One iteration of `while sell_amount_remaining > 0 and buy_queue`.  The
\* queue holds the caller's dicts, so buy['amount'] -= matched_amount changes
\* the trade in buy_trades.
FifoMatch_NewestBuy ==
    /\ fifo_pc = "while"
    /\ sell_amount_remaining > 0 /\ buy_queue # << >>
    /\ LET buy == buy_queue[Len(buy_queue)]
           buy_amount == buy_trades[buy].amount
           buy_price == buy_trades[buy].price
           sell_price == sell_trades[sells[sell_i]].price
           matched_amount == Min2(sell_amount_remaining, buy_amount)
       IN  /\ realized_pnl' = realized_pnl + matched_amount * (sell_price - buy_price)
           /\ sell_amount_remaining' = sell_amount_remaining - matched_amount
           /\ buy_trades' = [buy_trades EXCEPT ![buy].amount = @ - matched_amount]
           /\ buy_queue' = IF buy_amount - matched_amount <= 0
                           THEN SubSeq(buy_queue, 1, Len(buy_queue) - 1)
                           ELSE buy_queue
    /\ UNCHANGED <<sell_trades, fifo_pc, sells, sell_i, buy_amounts0>>
    /\ UNCHANGED <<fifo_calls, buy_trades0, first_pnl>>
    /\ UNCHANGED <<pvars, lvars, svars, fvars>>

FifoMatch ==
    /\ fifo_pc = "while"
    /\ sell_amount_remaining > 0 /\ buy_queue # << >>
    /\ LET buy == buy_queue[1]
           buy_amount == buy_trades[buy].amount
           buy_price == buy_trades[buy].price
           sell_price == sell_trades[sells[sell_i]].price
           matched_amount == Min2(sell_amount_remaining, buy_amount)
       IN  /\ realized_pnl' = realized_pnl + matched_amount * (sell_price - buy_price)
           /\ sell_amount_remaining' = sell_amount_remaining - matched_amount
           /\ buy_trades' = [buy_trades EXCEPT ![buy].amount = @ - matched_amount]
           /\ buy_queue' = IF buy_amount - matched_amount <= 0
                           THEN Tail(buy_queue)
                           ELSE buy_queue
    /\ UNCHANGED <<sell_trades, fifo_pc, sells, sell_i, buy_amounts0>>
    /\ UNCHANGED <<fifo_calls, buy_trades0, first_pnl>>
    /\ UNCHANGED <<pvars, lvars, svars, fvars>>

\* The while condition is false: on to the next sell.
FifoSellDone ==
    /\ fifo_pc = "while"
    /\ ~(sell_amount_remaining > 0 /\ buy_queue # << >>)
    /\ fifo_pc' = "for"
    /\ UNCHANGED <<buy_trades, sell_trades, buy_queue, sells, sell_i,
                   sell_amount_remaining, realized_pnl, buy_amounts0>>
    /\ UNCHANGED <<fifo_calls, buy_trades0, first_pnl>>
    /\ UNCHANGED <<pvars, lvars, svars, fvars>>

\* return realized_pnl
FifoReturn ==
    /\ fifo_pc = "for"
    /\ sell_i = Len(sells)
    /\ fifo_pc' = "done"
    /\ UNCHANGED <<buy_trades, sell_trades, buy_queue, sells, sell_i,
                   sell_amount_remaining, realized_pnl, buy_amounts0>>
    /\ UNCHANGED <<fifo_calls, buy_trades0, first_pnl>>
    /\ UNCHANGED <<pvars, lvars, svars, fvars>>

\* The caller calls _calculate_fifo_pnl again with the same two lists.
FifoCallAgain ==
    /\ fifo_pc = "done"
    /\ fifo_calls = 1
    /\ fifo_calls' = 2
    /\ first_pnl' = realized_pnl
    /\ buy_amounts0' = [k \in 1..Len(buy_trades) |-> buy_trades[k].amount]
    /\ fifo_pc' = "start"
    /\ UNCHANGED <<buy_trades, sell_trades, buy_queue, sells, sell_i,
                   sell_amount_remaining, realized_pnl, buy_trades0>>
    /\ UNCHANGED <<pvars, lvars, svars, fvars>>

---------------------------------------------------------------------------
(* Specifications.                                                         *)

\* Batches with strictly increasing timestamps: candle i carries timestamp i.
ValidBatch(f) == [i \in 1..Len(f) |-> MkCandle(i, f[i])]

\* Timestamp columns with at most one defect: candle k repeats the timestamp
\* of candle k-1 (duplicate), or candles k-1 and k are exchanged (decreasing).
TimestampColumns(n) ==
    {Positions(n)}
        \cup {[Positions(n) EXCEPT ![k] = k - 1] : k \in 2..n}
        \cup {[Positions(n) EXCEPT ![k] = k - 1, ![k - 1] = k] : k \in 2..n}

AnyBatch(f, ts) == [i \in 1..Len(f) |-> MkCandle(ts[i], f[i])]

StrictlyIncreasing(df) ==
    \A i \in 1..(Len(df) - 1) : df[i].timestamp < df[i + 1].timestamp

AnalyzerInit(batch, mode) ==
    /\ candles = batch
    /\ zone_mode = mode
    /\ pc = "call"
    /\ order_blocks = << >>
    /\ ob_i = 0
    /\ cd_i = 0
    /\ result = << >>
    /\ pipeline_ran = FALSE
    /\ runs = 1
    /\ first_result = << >>
    /\ observed = << >>

ServiceInit ==
    /\ update_locks = [tf \in Timeframes |-> FALSE]
    /\ tpc = [t \in Threads |-> "idle"]
    /\ meth = [t \in Threads |-> "none"]
    /\ ttf = [t \in Threads |-> "1h"]
    /\ ret = [t \in Threads |-> "none"]
    /\ nrel = [t \in Threads |-> 0]
    /\ last_update_times = [tf \in Timeframes |-> None]
    /\ update_stats = [tf \in Timeframes |-> None]
    /\ clock = 0

StoreInit ==
    /\ store = << >>
    /\ ob_stats = [status |-> "none", created |-> 0, updated |-> 0, total |-> 0]

StagesInit ==
    /\ df_atr = None
    /\ swing_points = None
    /\ swing_points_neg = None
    /\ df_displacement = None
    /\ df_bos = None

DefaultMultipliers ==
    multipliers = <<<<atr_multiplier_num, atr_multiplier_den>>,
                    <<atr_multiplier_num, atr_multiplier_den>>>>

FifoInit(buy_list, sell_list) ==
    /\ buy_trades = buy_list
    /\ sell_trades = sell_list
    /\ fifo_pc = "start"
    /\ buy_queue = << >>
    /\ sells = << >>
    /\ sell_i = 0
    /\ sell_amount_remaining = 0
    /\ realized_pnl = 0
    /\ buy_amounts0 = [k \in 1..Len(buy_list) |-> buy_list[k].amount]
    /\ fifo_calls = 1
    /\ buy_trades0 = buy_list
    /\ first_pnl = 0

\* The engine on one well-formed batch.
Init ==
    /\ \E n \in 0..MaxLen : \E f \in [1..n -> CandleShapes] : \E mode \in ZoneModes :
          AnalyzerInit(ValidBatch(f), mode)
    /\ ServiceInit
    /\ StoreInit
    /\ StagesInit
    /\ DefaultMultipliers
    /\ FifoInit(<< >>, << >>)

\* The engine on one batch whose timestamps may be malformed.
InitAny ==
    /\ \E n \in 0..MaxLenAny : \E f \in [1..n -> CandleShapes] :
       \E ts \in TimestampColumns(n) : \E mode \in ZoneModes :
          AnalyzerInit(AnyBatch(f, ts), mode)
    /\ ServiceInit
    /\ StoreInit
    /\ StagesInit
    /\ DefaultMultipliers
    /\ FifoInit(<< >>, << >>)

\* The update service alone.
InitService ==
    /\ AnalyzerInit(<< >>, "conservative")
    /\ ServiceInit
    /\ StoreInit
    /\ StagesInit
    /\ DefaultMultipliers
    /\ FifoInit(<< >>, << >>)

\* The candle table and the OrderBlock1h table, both empty.
InitStore ==
    /\ candles = << >>
    /\ zone_mode = "conservative"
    /\ pc = "table"
    /\ order_blocks = << >>
    /\ ob_i = 0
    /\ cd_i = 0
    /\ result = << >>
    /\ pipeline_ran = FALSE
    /\ runs = 1
    /\ first_result = << >>
    /\ observed = << >>
    /\ ServiceInit
    /\ StoreInit
    /\ StagesInit
    /\ DefaultMultipliers
    /\ FifoInit(<< >>, << >>)

Next ==
    \/ AnalyzeInsufficient
    \/ AnalyzeIdentify
    \/ TrackMitigationStep
    \/ AnalyzeReturn
    \/ AnalyzeAgain

UT_Progress(t) ==
    UT_UpdateOk(t) \/ UT_UpdateRaises(t) \/ UT_Store(t) \/ UT_Release(t)

NextService ==
    \/ \E t \in Threads :
          \/ \E tf \in Timeframes : UT_Call(t, tf)
          \/ UT_UpdateOk(t)
          \/ UT_UpdateRaises(t)
          \/ UT_Store(t)
          \/ UT_Release(t)
          \/ \E tf \in Timeframes : OB_Call(t, tf)
          \/ OB_Analyzed(t)
          \/ OB_Return(t)
    \/ Tick

\* One well-formed batch and two multipliers for the single stages.
InitStages ==
    /\ \E n \in 0..MaxLenStages : \E f \in [1..n -> CandleShapes] :
          candles = ValidBatch(f)
    /\ \E k1 \in Multipliers : \E k2 \in Multipliers : multipliers = <<k1, k2>>
    /\ zone_mode = "conservative"
    /\ pc = "stage_atr"
    /\ order_blocks = << >>
    /\ ob_i = 0
    /\ cd_i = 0
    /\ result = << >>
    /\ pipeline_ran = FALSE
    /\ runs = 1
    /\ first_result = << >>
    /\ observed = << >>
    /\ ServiceInit
    /\ StoreInit
    /\ StagesInit
    /\ FifoInit(<< >>, << >>)

NextStages ==
    \/ ApplyCalculateAtr
    \/ ApplyDetectSwingPoints
    \/ ApplyDetectDisplacement

\* One scenario A batch of at least min_candles candles.
InitScenarioA ==
    /\ \E n \in min_candles..MaxLenScenario : \E d \in 1..(n - 1) :
       \E b \in (d + 1)..Min2(n, d + 5) : \E c \in {102, 104} : \E mode \in ZoneModes :
          AnalyzerInit(ScenarioA(n, d, b, c), mode)
    /\ ServiceInit
    /\ StoreInit
    /\ StagesInit
    /\ DefaultMultipliers
    /\ FifoInit(<< >>, << >>)

NextScenario ==
    AnalyzeCall

\* One FIFO calculation on lists of buy and sell trades in any order.
InitFifo ==
    /\ AnalyzerInit(<< >>, "conservative")
    /\ ServiceInit
    /\ StoreInit
    /\ StagesInit
    /\ DefaultMultipliers
    /\ \E nb \in 0..MaxTrades : \E ns \in 0..MaxTrades :
       \E buy_list \in [1..nb -> Trades] : \E sell_list \in [1..ns -> Trades] :
          FifoInit(buy_list, sell_list)

NextFifo ==
    \/ FifoStart
    \/ FifoNextSell
    \/ FifoMatch
    \/ FifoSellDone
    \/ FifoReturn

\* Steps 1 to 5 of analyze, one stage at a time, by the analyzer
\* update_order_blocks builds, on batches of either kind.
InitPipeline ==
    /\ \/ \E n \in 0..MaxLen : \E f \in [1..n -> CandleShapes] :
             candles = ValidBatch(f)
       \/ \E n \in (MaxLen + 1)..MaxTableLen : \E f \in [1..n -> TableShapes] :
             /\ \A i \in 1..n : f[i] \in ArrivalShapes(i - 1)
             /\ candles = ValidBatch(f)
    /\ zone_mode = "conservative"
    /\ pc = "stage_atr"
    /\ order_blocks = << >>
    /\ ob_i = 0
    /\ cd_i = 0
    /\ result = << >>
    /\ pipeline_ran = FALSE
    /\ runs = 1
    /\ first_result = << >>
    /\ observed = << >>
    /\ ServiceInit
    /\ StoreInit
    /\ StagesInit
    /\ DefaultMultipliers
    /\ FifoInit(<< >>, << >>)

NextPipeline ==
    \/ ApplyCalculateAtr
    \/ ApplyDetectSwingPoints
    \/ ApplyDetectDisplacement
    \/ ApplyDetectBos
    \/ ApplyIdentifyOrderBlocks
    \/ ApplyTrackMitigation
    \/ ApplyTrackMitigationAgain

NextFifoTwice ==
    \/ NextFifo
    \/ FifoCallAgain

NextStore ==
    \/ UpdateOrderBlocks
    \/ CandleArrives

Spec == Init /\ [][Next]_vars

SpecStore == InitStore /\ [][NextStore]_vars

SpecStages == InitStages /\ [][NextStages]_vars

SpecScenarioA == InitScenarioA /\ [][NextScenario]_vars

SpecFifo == InitFifo /\ [][NextFifo]_vars

SpecFifoTwice == InitFifo /\ [][NextFifoTwice]_vars

SpecPipeline == InitPipeline /\ [][NextPipeline]_vars

SpecAny == InitAny /\ [][Next]_vars

SpecService == InitService /\ [][NextService]_vars

\* Every thread inside update_timeframe keeps running until it has returned.
SpecServiceFair ==
    InitService /\ [][NextService]_vars /\ \A t \in Threads : WF_vars(UT_Progress(t))

---------------------------------------------------------------------------
(* Properties of the engine.                                               *)

Rank(status) ==
    CASE status = "fresh" -> 1
      [] status = "touched" -> 2
      [] status = "invalid" -> 3

SeqElems(q) == {q[i] : i \in 1..Len(q)}

\* C1: during the replay of any order block the statuses observed never
\* regress in the order fresh < touched < invalid, and invalid is final: no
\* status is observed after it.  The status held by the order block is the
\* one observed last.
C1_StatusNeverRegresses ==
    \A k \in 1..Len(observed) :
        /\ order_blocks[k].status = observed[k][Len(observed[k])]
        /\ \A j \in 1..(Len(observed[k]) - 1) :
              /\ Rank(observed[k][j]) <= Rank(observed[k][j + 1])
              /\ observed[k][j] # "invalid"

\* An order block seen fresh, then touched, then invalid.
C1_Witness ==
    \E k \in 1..Len(observed) :
        /\ observed[k][1] = "fresh"
        /\ "touched" \in SeqElems(observed[k])
        /\ observed[k][Len(observed[k])] = "invalid"

ValidToMatchesStatus(ob) ==
    /\ ob.status \in {"fresh", "touched", "invalid"}
    /\ (ob.valid_to_ts_ms # None) <=> (ob.status = "invalid")

\* C2: at every step of the replay and in the returned list, valid_to_ts_ms
\* is set if and only if the status is invalid; an order block that was not
\* invalidated is fresh or touched with valid_to_ts_ms = None.
C2_ValidToIffInvalid ==
    /\ \A k \in 1..Len(order_blocks) : ValidToMatchesStatus(order_blocks[k])
    /\ \A k \in 1..Len(result) : ValidToMatchesStatus(result[k])

\* A returned list with an invalidated block and one still active.
C2_Witness ==
    /\ pc = "returned"
    /\ \E i, j \in 1..Len(result) :
          /\ result[i].status = "invalid" /\ result[i].valid_to_ts_ms # None
          /\ result[j].status = "touched" /\ result[j].valid_to_ts_ms = None

C4_SortedByCreated ==
    pc = "returned" =>
        \A i, j \in 1..Len(result) :
            i < j => result[i].created_ts_ms <= result[j].created_ts_ms

\* C4 amended: the returned list holds the bullish order blocks first and the
\* bearish ones after them, and within one direction created_ts_ms never
\* decreases.
C4_SortedWithinDirection ==
    pc = "returned" =>
        \A i, j \in 1..Len(result) :
            i < j =>
                /\ result[i].direction = "bearish" => result[j].direction = "bearish"
                /\ result[i].direction = result[j].direction
                      => result[i].created_ts_ms <= result[j].created_ts_ms

\* A bullish block listed before a bearish block that was created earlier.
C4_Witness ==
    /\ pc = "returned"
    /\ \E i, j \in 1..Len(result) :
          /\ i < j
          /\ result[i].direction = "bullish"
          /\ result[j].direction = "bearish"
          /\ result[i].created_ts_ms > result[j].created_ts_ms

\* C5: a batch with duplicate or non-monotonic timestamps is rejected as a
\* whole: analyze emits no order block for it.
C5_MalformedBatchRejected ==
    (pc = "returned" /\ ~StrictlyIncreasing(candles)) => result = << >>

\* C6: analyze returns the empty list without running the pipeline exactly
\* when the batch has fewer than min_candles candles, and runs the pipeline
\* when it has min_candles candles or more.
C6_InsufficientData ==
    (pc # "call" \/ runs > 1) =>
        /\ pipeline_ran <=> Len(candles) >= min_candles
        /\ (pc = "returned" /\ Len(candles) < min_candles) => result = << >>

\* A non-empty batch one candle short of min_candles, answered with [].
C6_Witness ==
    /\ pc = "returned"
    /\ Len(candles) = min_candles - 1
    /\ Len(candles) > 0
    /\ ~pipeline_ran
    /\ result = << >>

\* C7: the second analyze call on the same batch with the same configuration
\* returns the list the first call returned.
C7_RerunIdentical ==
    (pc = "returned" /\ runs = 2) => result = first_result

\* A second run that returned an order block the replay had invalidated.
C7_Witness ==
    /\ pc = "returned"
    /\ runs = 2
    /\ \E k \in 1..Len(result) : result[k].status = "invalid"

---------------------------------------------------------------------------
(* Properties of the update service.                                       *)

RunningBody(tf) == {t \in Threads : tpc[t] \in InBody /\ ttf[t] = tf}
RunningOrderBlocks(tf) == {t \in Threads : tpc[t] \in InOrderBlocks /\ ttf[t] = tf}

\* C8: at most one update_order_blocks run per timeframe is in flight.
C8_OneOrderBlockRunPerTimeframe ==
    \A tf \in Timeframes : Cardinality(RunningOrderBlocks(tf)) <= 1

\* The step in which thread t's update_timeframe invocation is skipped.
SkippedStep(t) ==
    /\ tpc[t] = "idle"
    /\ tpc'[t] = "idle"
    /\ ret'[t] = "skipped"
    /\ <<ret[t], ttf[t], meth[t]>> # <<ret'[t], ttf'[t], meth'[t]>>

\* C9: at most one update_timeframe body runs per timeframe under every
\* interleaving; an invocation is skipped only while another thread runs the
\* body for the same timeframe, and the skipped invocation returns in that
\* step, leaving update_locks, last_update_times and update_stats as they
\* were.
C9_UpdateTimeframeExclusive ==
    /\ [](\A tf \in Timeframes : Cardinality(RunningBody(tf)) <= 1)
    /\ [][\A t \in Threads :
            SkippedStep(t) =>
                /\ \E u \in Threads \ {t} : u \in RunningBody(ttf'[t])
                /\ UNCHANGED <<update_locks, last_update_times, update_stats>>]_vars

\* A thread was skipped while another one runs the body for that timeframe.
C9_Witness ==
    \E t, u \in Threads :
        /\ t # u
        /\ tpc[u] \in InBody
        /\ tpc[t] = "idle"
        /\ meth[t] = "update_timeframe"
        /\ ret[t] = "skipped"
        /\ ttf[t] = ttf[u]

\* C10: a lock is held exactly while an invocation that acquired it is
\* between acquire and release; an invocation that has returned made one
\* release() call if it had acquired the lock and none if it was skipped;
\* and a held lock is always released again.
C10_LockAlwaysReleased ==
    /\ [](\A tf \in Timeframes : update_locks[tf] <=> RunningBody(tf) # {})
    /\ [](\A t \in Threads :
            (tpc[t] = "idle" /\ meth[t] = "update_timeframe") =>
                /\ ret[t] \in {"success", "error"} => nrel[t] = 1
                /\ ret[t] = "skipped" => nrel[t] = 0)
    /\ \A tf \in Timeframes : update_locks[tf] ~> ~update_locks[tf]

\* An invocation that took the exception path has returned and the lock is free.
C10_Witness ==
    \E t \in Threads :
        /\ tpc[t] = "idle"
        /\ meth[t] = "update_timeframe"
        /\ ret[t] = "error"
        /\ nrel[t] = 1
        /\ ~update_locks[ttf[t]]

---------------------------------------------------------------------------
(* Properties of the OrderBlock1h table.                                   *)

SameKey(a, b) == a.direction = b.direction /\ a.created_ts_ms = b.created_ts_ms

RecordsWithKey(rows, ob) == {k \in 1..Len(rows) : SameKey(rows[k], ob)}

\* Everything of a record but status and valid_to_ts_ms.
Unmitigated(rec) == [rec EXCEPT !.status = "fresh", !.valid_to_ts_ms = None]

\* C11: after any sequence of runs the table holds at most one record per
\* (symbol, direction, created_ts_ms).  A run never removes a record and
\* changes nothing of an existing record but status and valid_to_ts_ms; it
\* inserts a record exactly for the keys that were absent, and afterwards
\* every emitted order block has a record with its status and valid_to_ts_ms.
C11_OneRecordPerKey ==
    /\ [](\A i, j \in 1..Len(store) :
            (store[i].symbol = store[j].symbol /\ SameKey(store[i], store[j])) => i = j)
    /\ [][/\ Len(store') >= Len(store)
          /\ \A k \in 1..Len(store) : Unmitigated(store'[k]) = Unmitigated(store[k])
          /\ \A k \in (Len(store) + 1)..Len(store') :
                /\ RecordsWithKey(store, store'[k]) = {}
                /\ \E i \in 1..Len(result') : SameKey(result'[i], store'[k])
          /\ ob_stats' # ob_stats =>
                \A i \in 1..Len(result') :
                    \E k \in 1..Len(store') :
                        /\ SameKey(store'[k], result'[i])
                        /\ store'[k].status = result'[i].status
                        /\ store'[k].valid_to_ts_ms = result'[i].valid_to_ts_ms]_vars

\* A run that inserted a record and updated the status of an existing one.
C11_Witness ==
    /\ ob_stats.status = "success"
    /\ ob_stats.created >= 1
    /\ ob_stats.updated >= 1
    /\ Len(store) >= 2

\* Two order blocks emitted by the last run with one direction and one created
\* timestamp, and with different bos_level values.
NearDuplicates(i, j) ==
    /\ i < j
    /\ SameKey(result[i], result[j])
    /\ result[i].bos_level # result[j].bos_level

\* C12 as claimed: near-duplicates of one run are stored as two records.
C12_NearDuplicatesDistinct ==
    \A i, j \in 1..Len(result) :
        (ob_stats.status = "success" /\ NearDuplicates(i, j)) =>
            \E k, l \in 1..Len(store) :
                /\ k # l
                /\ SameKey(store[k], result[i]) /\ store[k].bos_level = result[i].bos_level
                /\ SameKey(store[l], result[j]) /\ store[l].bos_level = result[j].bos_level

\* C12 amended: order blocks of one run with the same direction and created
\* timestamp are stored as one record whether or not their bos_level values
\* differ; the record keeps the bos_level it was inserted with, which is that
\* of the first such order block of the inserting run.
C12_DuplicatesCollapse ==
    /\ [](\A i, j \in 1..Len(result) :
            (ob_stats.status = "success" /\ i < j /\ SameKey(result[i], result[j])) =>
                Cardinality(RecordsWithKey(store, result[i])) = 1)
    /\ [][\A k \in (Len(store) + 1)..Len(store') :
            LET first == SetMin({i \in 1..Len(result') : SameKey(result'[i], store'[k])})
            IN  store'[k].bos_level = result'[first].bos_level]_vars

\* A run emitted near-duplicates and the table holds one record for them,
\* with the bos_level of the first.
C12_Witness ==
    /\ ob_stats.status = "success"
    /\ \E i, j \in 1..Len(result) :
          /\ NearDuplicates(i, j)
          /\ \E k \in 1..Len(store) :
                /\ RecordsWithKey(store, result[i]) = {k}
                /\ store[k].bos_level = result[i].bos_level
                /\ store[k].bos_level # result[j].bos_level

---------------------------------------------------------------------------
(* Properties of the mitigation replay.                                    *)

\* The candles that follow an order block created at created_ts, in row order.
After(df, created_ts) == {i \in 1..Len(df) : df[i].timestamp > created_ts}

\* What the candles make of a zone, from the direction, the zone and the
\* created timestamp alone: <<status, valid_to_ts_ms>>.
Fate(df, direction, price_low, price_high, created_ts) ==
    LET closes_beyond == {i \in After(df, created_ts) :
                             IF direction = "bullish"
                             THEN df[i].close < price_low
                             ELSE df[i].close > price_high}
        seen == IF closes_beyond = {}
                THEN After(df, created_ts)
                ELSE {i \in After(df, created_ts) : i <= SetMin(closes_beyond)}
        overlaps == {i \in seen : df[i].low <= price_high /\ df[i].high >= price_low}
    IN  IF closes_beyond # {}
        THEN <<"invalid", Some(df[SetMin(closes_beyond)].timestamp)>>
        ELSE IF overlaps # {} THEN <<"touched", None>> ELSE <<"fresh", None>>

\* C13: a step of track_mitigation keeps the number of order blocks, changes
\* one order block only, and of that one only status and valid_to_ts_ms; in
\* the returned list every order block is the identified one with the status
\* and valid_to_ts_ms that its own direction, zone and created timestamp
\* give it on the candles, whatever happened to the other order blocks.
C13_MitigationFrame ==
    /\ [][(pc = "mitigate" /\ pc' = "mitigate") =>
            /\ Len(order_blocks') = Len(order_blocks)
            /\ \A k \in 1..Len(order_blocks) :
                  /\ k # ob_i => order_blocks'[k] = order_blocks[k]
                  /\ Unmitigated(order_blocks'[k]) = Unmitigated(order_blocks[k])]_vars
    /\ []((pc = "returned" /\ pipeline_ran) =>
            LET identified == IdentifiedOrderBlocks(candles, zone_mode)
            IN  /\ Len(result) = Len(identified)
                /\ \A k \in 1..Len(result) :
                      LET fate == Fate(candles, identified[k].direction, identified[k].price_low,
                                       identified[k].price_high, identified[k].created_ts_ms)
                      IN  result[k] = [identified[k] EXCEPT !.status = fate[1],
                                                            !.valid_to_ts_ms = fate[2]])

\* A candle invalidated one order block and left alone another one of the
\* same direction that was created before that candle.
C13_Witness ==
    /\ pc = "returned"
    /\ \E i, j \in 1..Len(result) :
          /\ result[i].status = "invalid"
          /\ result[j].status # "invalid"
          /\ result[j].direction = result[i].direction
          /\ result[j].created_ts_ms < result[i].valid_to_ts_ms[1]

---------------------------------------------------------------------------
(* Properties of the single stages.                                        *)

\* The row positions a column of booleans flags.
Flagged(col) == {i \in 1..Len(col) : col[i]}

\* The row positions of a list of swing points.
SwingIndices(swings) == {swings[k].index : k \in 1..Len(swings)}

\* C14: every value of the series calculate_atr returned is non-negative
\* (numerator >= 0 over a positive denominator), one value per candle.
C14_AtrNonNegative ==
    df_atr # None =>
        /\ Len(df_atr[1]) = Len(candles)
        /\ \A i \in 1..Len(candles) : df_atr[1][i][1] >= 0 /\ df_atr[1][i][2] > 0

\* calculate_atr returned a series that rises and falls, with a zero value.
C14_Witness ==
    /\ df_atr # None
    /\ \E i, j, k \in 1..Len(candles) :
          /\ i < j /\ j < k
          /\ df_atr[1][i][1] = 0
          /\ df_atr[1][j][1] * df_atr[1][k][2] > df_atr[1][k][1] * df_atr[1][j][2]
          /\ df_atr[1][k][1] > 0

\* C15: with multipliers k1 <= k2 on one batch, every index flagged as
\* displacement with k2 is flagged with k1.
C15_DisplacementMonotone ==
    (df_displacement # None /\ MultiplierLeq(multipliers[1], multipliers[2])) =>
        Flagged(df_displacement[1][2]) \subseteq Flagged(df_displacement[1][1])

\* Raising the multiplier removed some flagged indices and kept others.
C15_Witness ==
    /\ df_displacement # None
    /\ MultiplierLeq(multipliers[1], multipliers[2])
    /\ Flagged(df_displacement[1][2]) # {}
    /\ Flagged(df_displacement[1][2]) # Flagged(df_displacement[1][1])

\* C16: the indices of the swing highs of a batch are the indices of the
\* swing lows of the negated batch, and the indices of its swing lows are
\* the indices of the swing highs of the negated batch; the levels are
\* negated.
C16_SwingDuality ==
    swing_points # None =>
        /\ SwingIndices(swing_points[1][1]) = SwingIndices(swing_points_neg[1][2])
        /\ SwingIndices(swing_points[1][2]) = SwingIndices(swing_points_neg[1][1])
        /\ \A k \in 1..Len(swing_points[1][1]) :
              swing_points_neg[1][2][k].level = 0 - swing_points[1][1][k].level
        /\ \A k \in 1..Len(swing_points[1][2]) :
              swing_points_neg[1][1][k].level = 0 - swing_points[1][2][k].level

\* A batch with a swing high that is no swing low, a swing low that is no
\* swing high, and a swing low that ties with a neighbour.
C16_Witness ==
    /\ swing_points # None
    /\ SwingIndices(swing_points[1][1]) \ SwingIndices(swing_points[1][2]) # {}
    /\ SwingIndices(swing_points[1][2]) \ SwingIndices(swing_points[1][1]) # {}
    /\ \E i \in SwingIndices(swing_points[1][2]) :
          candles[i].low = candles[i + 1].low

---------------------------------------------------------------------------
(* Properties of the scenarios.                                            *)

\* The last row of a scenario A batch that does not close at 100: row b.
ScenarioBosRow(df) == SetMax({i \in 1..Len(df) : df[i].close # 100})

\* The level of the most recent swing high before row b, if there is one.
PriorSwingHigh(df, b) ==
    LET prior == {i \in 1..(b - 1) : IsSwingHigh(df, i)}
    IN  IF prior = {} THEN None ELSE Some(df[SetMax(prior)].high)

\* Row b closes 2% above the swing high before it.
ClosesTwoPercentAbove(df) ==
    LET b == ScenarioBosRow(df)
    IN  /\ PriorSwingHigh(df, b) # None
        /\ 100 * df[b].close = 102 * PriorSwingHigh(df, b)[1]

\* C17 as claimed: on a scenario A batch analyze returns exactly one order
\* block, bullish and fresh.
C17_ScenarioA_OneFreshBullish ==
    (pc = "returned" /\ ClosesTwoPercentAbove(candles)) =>
        /\ Len(result) = 1
        /\ result[1].direction = "bullish"
        /\ result[1].status = "fresh"

\* C17 amended: on a scenario A batch analyze returns no order block.
C17_ScenarioA_NoOrderBlock ==
    pc = "returned" => result = << >>

\* A scenario A batch whose row b closes 2% above the prior swing high and
\* is a bullish break of structure after a displacement candle, analysed
\* with nothing returned.
C17_Witness ==
    /\ pc = "returned"
    /\ pipeline_ran
    /\ result = << >>
    /\ ClosesTwoPercentAbove(candles)
    /\ LET b == ScenarioBosRow(candles)
           atr == calculate_atr(candles)
       IN  /\ detect_bos_bullish(candles, swing_highs_of(candles))[b]
           /\ \E d \in 1..(b - 1) :
                 /\ candles[d].close = 102
                 /\ detect_displacement(candles, atr)[d]
                 /\ \A i \in (d + 1)..(b - 1) : ~detect_displacement(candles, atr)[i]

\* Scenario D on the batch analysed: the rows with a bullish break of
\* structure, the displacement leg of such a row (the most recent displaced
\* row before it, 0 if there is none) and the bearish rows before a row.
BullishBosRows(df) ==
    LET bos == detect_bos_bullish(df, swing_highs_of(df))
    IN  {b \in 1..Len(df) : bos[b]}

DisplacementLeg(df, b) ==
    LET displacement == detect_displacement(df, calculate_atr(df))
        before == {i \in 1..(b - 1) : displacement[i]}
    IN  IF before = {} THEN 0 ELSE SetMax(before)

BearishBefore(df, d) == {i \in 1..(d - 1) : df[i].close < df[i].open}

\* Two bullish BOS rows b1 < b2 with different displacement legs.
IndependentBullishEvents(df, b1, b2) ==
    /\ b1 \in BullishBosRows(df) /\ b2 \in BullishBosRows(df)
    /\ b1 < b2
    /\ DisplacementLeg(df, b1) # 0
    /\ DisplacementLeg(df, b1) # DisplacementLeg(df, b2)

\* The bullish BOS rows that have a bearish row before their displacement
\* leg, and the place in the returned list of the record of such a row.
EmittingRows(df) ==
    {b \in BullishBosRows(df) : BearishBefore(df, DisplacementLeg(df, b)) # {}}

RecordOf(df, b) == Cardinality({e \in EmittingRows(df) : e <= b})

\* C18 as claimed: two bullish BOS rows with different displacement legs,
\* each with a bearish row before its leg, yield two records with different
\* created_ts_ms.
C18_DistinctLegsDistinctCreated ==
    (pc = "returned" /\ pipeline_ran) =>
        \A b1, b2 \in EmittingRows(candles) :
            IndependentBullishEvents(candles, b1, b2) =>
                /\ RecordOf(candles, b2) <= Len(result)
                /\ result[RecordOf(candles, b1)].created_ts_ms
                      # result[RecordOf(candles, b2)].created_ts_ms

\* C18 amended: each bullish BOS row with a bearish row before its
\* displacement leg yields one bullish record, created at the last such
\* bearish row, and the other bullish BOS rows yield none; so two rows with
\* different legs d1 < d2 that both yield a record have different
\* created_ts_ms exactly when a bearish row lies in d1 .. d2 - 1.
C18_DistinctCreatedIffBearishBetween ==
    (pc = "returned" /\ pipeline_ran) =>
        /\ Cardinality({k \in 1..Len(result) : result[k].direction = "bullish"})
              = Cardinality(EmittingRows(candles))
        /\ \A b \in EmittingRows(candles) :
              /\ result[RecordOf(candles, b)].direction = "bullish"
              /\ result[RecordOf(candles, b)].created_ts_ms
                    = candles[SetMax(BearishBefore(candles, DisplacementLeg(candles, b)))].timestamp
        /\ \A b1, b2 \in EmittingRows(candles) :
              IndependentBullishEvents(candles, b1, b2) =>
                  ((result[RecordOf(candles, b1)].created_ts_ms
                        # result[RecordOf(candles, b2)].created_ts_ms)
                   <=> \E i \in DisplacementLeg(candles, b1)..(DisplacementLeg(candles, b2) - 1) :
                          candles[i].close < candles[i].open)

\* Two bullish BOS rows with different displacement legs and a bearish row
\* between the legs: two records with different created_ts_ms.
C18_Witness ==
    /\ pc = "returned"
    /\ \E b1, b2 \in EmittingRows(candles) :
          /\ IndependentBullishEvents(candles, b1, b2)
          /\ result[RecordOf(candles, b1)].created_ts_ms
                # result[RecordOf(candles, b2)].created_ts_ms

---------------------------------------------------------------------------
(* FIFO matching stated without the loop: lay the buys end to end in      *)
(* timestamp order on a line of quantity, and the sells likewise; the      *)
(* quantity of sell i matched against buy j is the overlap of their two    *)
(* segments.  Quantity beyond the shorter line is matched with nothing.    *)

RECURSIVE AmountBefore(_, _, _)
AmountBefore(order, amounts, r) ==
    IF r <= 1 THEN 0
    ELSE AmountBefore(order, amounts, r - 1) + amounts[order[r - 1]]

Overlap(a1, a2, b1, b2) == Max2(0, Min2(a2, b2) - Max2(a1, b1))

SellAmounts == [k \in 1..Len(sell_trades) |-> sell_trades[k].amount]

\* matched quantity of the sell at rank i against the buy at rank j
MatchedAmount(i, j) ==
    LET buy_order == sorted_by_timestamp(buy_trades)
        sell_order == sorted_by_timestamp(sell_trades)
        b1 == AmountBefore(buy_order, buy_amounts0, j)
        s1 == AmountBefore(sell_order, SellAmounts, i)
    IN  Overlap(s1, s1 + SellAmounts[sell_order[i]],
                b1, b1 + buy_amounts0[buy_order[j]])

RECURSIVE MatchesPnl(_, _)
MatchesPnl(i, j) ==
    IF i = 0 THEN 0
    ELSE IF j = 0 THEN MatchesPnl(i - 1, Len(buy_trades))
    ELSE MatchesPnl(i, j - 1)
         + MatchedAmount(i, j)
           * (sell_trades[sorted_by_timestamp(sell_trades)[i]].price
              - buy_trades[sorted_by_timestamp(buy_trades)[j]].price)

ExpectedFifoPnl == MatchesPnl(Len(sell_trades), Len(buy_trades))

\* C19: _calculate_fifo_pnl matches each sell, in timestamp order, against the
\* earliest-timestamp buy that still has unmatched quantity, and returns the
\* sum over all matches of matched_amount * (sell_price - buy_price); buy
\* quantity left over, and sell quantity for which no buy remains (no sells
\* and no buys included), contribute zero.
C19_FifoPnl ==
    /\ fifo_pc \in {"for", "while"} /\ buy_queue # << >> =>
          /\ buy_trades[buy_queue[1]].amount > 0
          /\ \A k \in 1..Len(buy_trades) :
                buy_trades[k].amount > 0 /\ k # buy_queue[1]
                    => SortsBefore(buy_trades, buy_queue[1], k)
    /\ fifo_pc = "done" =>
          /\ realized_pnl = ExpectedFifoPnl
          /\ (buy_trades = << >> \/ sell_trades = << >>) => realized_pnl = 0

\* Two buys and two sells, both lists given out of timestamp order; the first
\* sell in time is matched against two buys, the later sell finds no buy left,
\* and the result is not zero.
C19_Witness ==
    /\ fifo_pc = "done"
    /\ Len(buy_trades) = 2 /\ Len(sell_trades) = 2
    /\ buy_trades[2].timestamp < buy_trades[1].timestamp
    /\ sell_trades[2].timestamp < sell_trades[1].timestamp
    /\ buy_trades[1].price # buy_trades[2].price
    /\ MatchedAmount(1, 1) > 0 /\ MatchedAmount(1, 2) > 0
    /\ MatchedAmount(2, 1) = 0 /\ MatchedAmount(2, 2) = 0
    /\ buy_queue = << >>
    /\ realized_pnl # 0

---------------------------------------------------------------------------
(* Invalidation.                                                           *)

\* The rows after an order block whose close lies beyond its zone: below
\* price_low for a bullish one, above price_high for a bearish one.
ClosesBeyond(df, ob) ==
    {i \in After(df, ob.created_ts_ms) :
        IF ob.direction = "bullish"
        THEN df[i].close < ob.price_low
        ELSE df[i].close > ob.price_high}

\* The replay of order block k is over.
Replayed(k) == pc = "returned" \/ (pc = "mitigate" /\ k < ob_i)

\* The number of candles the replay has examined for order block k.
Examined(k) == Len(observed[k]) - 1

\* C20: for a bullish (bearish) order block the first candle after
\* created_ts_ms that closes below price_low (above price_high) sets status
\* to invalid and valid_to_ts_ms to its timestamp, whether the order block
\* was fresh or touched before that candle, and no later candle is examined
\* for the order block.
C20_FirstCloseBeyondInvalidates ==
    /\ [][(pc = "mitigate" /\ ob_i <= Len(order_blocks)
           /\ ClosesBeyond(candles, order_blocks[ob_i]) # {}
           /\ Examined(ob_i) + 1 = Cardinality(
                 {i \in After(candles, order_blocks[ob_i].created_ts_ms) :
                     i <= SetMin(ClosesBeyond(candles, order_blocks[ob_i]))}))
          => /\ order_blocks[ob_i].status \in {"fresh", "touched"}
             /\ order_blocks'[ob_i].status = "invalid"
             /\ order_blocks'[ob_i].valid_to_ts_ms
                   = Some(candles[SetMin(ClosesBeyond(candles, order_blocks[ob_i]))].timestamp)
             /\ ob_i' = ob_i + 1]_vars
    /\ [](\A k \in 1..Len(observed) :
             (Replayed(k) /\ ClosesBeyond(candles, order_blocks[k]) # {}) =>
                LET first == SetMin(ClosesBeyond(candles, order_blocks[k]))
                IN  /\ order_blocks[k].status = "invalid"
                    /\ order_blocks[k].valid_to_ts_ms = Some(candles[first].timestamp)
                    /\ Examined(k) = Cardinality(
                          {i \in After(candles, order_blocks[k].created_ts_ms) : i <= first}))

\* One order block was invalidated while still fresh and another one after
\* it had been touched; for one of them candles follow the invalidating one,
\* and none of those was examined.
C20_Witness ==
    /\ pc = "returned"
    /\ \E i, j \in 1..Len(observed) :
          /\ order_blocks[i].status = "invalid"
          /\ order_blocks[j].status = "invalid"
          /\ observed[i][Len(observed[i]) - 1] = "fresh"
          /\ observed[j][Len(observed[j]) - 1] = "touched"
          /\ \E k \in {i, j} :
                /\ candles[Len(candles)].timestamp > order_blocks[k].valid_to_ts_ms[1]
                /\ Examined(k) < Cardinality(After(candles, order_blocks[k].created_ts_ms))

---------------------------------------------------------------------------
(* Touch.                                                                  *)

\* The rows after an order block that overlap its zone.
Overlapping(df, ob) ==
    {i \in After(df, ob.created_ts_ms) :
        df[i].low <= ob.price_high /\ df[i].high >= ob.price_low}

\* The place of row i among the rows after the order block.
PlaceAfter(df, ob, i) ==
    Cardinality({j \in After(df, ob.created_ts_ms) : j <= i})

\* The rows after an order block up to the first one that closes beyond its
\* zone: the rows the replay examines.
Scanned(df, ob) ==
    IF ClosesBeyond(df, ob) = {}
    THEN After(df, ob.created_ts_ms)
    ELSE {i \in After(df, ob.created_ts_ms) : i <= SetMin(ClosesBeyond(df, ob))}

\* C21 as claimed: an order block with an overlapping row after
\* created_ts_ms is fresh until the first such row and has left fresh with it.
C21_TouchedAtFirstOverlap ==
    \A k \in 1..Len(observed) :
        (Replayed(k) /\ Overlapping(candles, order_blocks[k]) # {}) =>
            LET f == PlaceAfter(candles, order_blocks[k],
                                SetMin(Overlapping(candles, order_blocks[k])))
            IN  /\ Examined(k) >= f
                /\ observed[k][f] = "fresh"
                /\ observed[k][f + 1] # "fresh"

\* C21 amended: among the rows the replay examines (those after
\* created_ts_ms up to the first one that closes beyond the zone, rows before
\* the BOS row included) the status leaves fresh exactly at the first one
\* that overlaps the zone: it is fresh after every earlier row, and touched
\* after that row and every later one, except that the row closing beyond the
\* zone leaves it invalid.  Without such a row the status is never touched.
\* Rows up to the origin row play no part.
C21_TouchedAtFirstScannedOverlap ==
    \A k \in 1..Len(observed) :
        Replayed(k) =>
            LET ob == order_blocks[k]
                hits == Overlapping(candles, ob) \cap Scanned(candles, ob)
                StatusAfter(i) == observed[k][PlaceAfter(candles, ob, i) + 1]
            IN  /\ Examined(k) = Cardinality(Scanned(candles, ob))
                /\ observed[k][1] = "fresh"
                /\ \A i \in Scanned(candles, ob) :
                      StatusAfter(i) =
                          IF i \in ClosesBeyond(candles, ob) THEN "invalid"
                          ELSE IF hits # {} /\ i >= SetMin(hits) THEN "touched"
                          ELSE "fresh"

\* A bullish order block stays fresh over the row after its origin row, is
\* touched by a row before its BOS row, is overlapped again by a later row
\* and is returned touched.
C21_Witness ==
    /\ pc = "returned" /\ pipeline_ran
    /\ \E b \in EmittingRows(candles) :
          LET k == RecordOf(candles, b)
              hits == Overlapping(candles, order_blocks[k])
          IN  /\ order_blocks[k].status = "touched"
              /\ Cardinality(hits) >= 2
              /\ SetMin(hits) < b
              /\ observed[k][2] = "fresh"

---------------------------------------------------------------------------
(* Break of structure.                                                     *)

\* The swings of a list with index <= i, as places in the list.
SwingsUpTo(swings, i) == {k \in 1..Len(swings) : swings[k].index <= i}

\* The level of the swing with the greatest index among those with index <= i.
LatestLevelUpTo(swings, i) ==
    LET upto == SwingsUpTo(swings, i)
        latest == CHOOSE k \in upto : \A j \in upto : swings[j].index <= swings[k].index
    IN  swings[latest].level

\* C22: detect_bos flags bullishBOS[i] exactly when some swing high has index
\* <= i and close[i] is strictly greater than the level of the latest swing
\* high with index <= i, a swing at index i included; bearishBOS[i] likewise
\* with swing lows and close[i] strictly lower.  Swings with index > i play no
\* part in the flags at i.
C22_BosAgainstLatestSwing ==
    df_bos # None =>
        LET swing_highs == swing_points[1][1]
            swing_lows == swing_points[1][2]
        IN  /\ Len(df_bos[1][1]) = Len(candles) /\ Len(df_bos[1][2]) = Len(candles)
            /\ \A i \in 1..Len(candles) :
                  /\ df_bos[1][1][i] <=>
                        /\ SwingsUpTo(swing_highs, i) # {}
                        /\ candles[i].close > LatestLevelUpTo(swing_highs, i)
                  /\ df_bos[1][2][i] <=>
                        /\ SwingsUpTo(swing_lows, i) # {}
                        /\ candles[i].close < LatestLevelUpTo(swing_lows, i)

\* Two swing highs at different levels precede a bullish BOS row that closes
\* above the later one and not above the earlier one; another row is itself
\* a swing low, closes below the level of the swing low before it and is no
\* bearish BOS row.
C22_Witness ==
    /\ df_bos # None
    /\ LET swing_highs == swing_points[1][1]
           swing_lows == swing_points[1][2]
       IN  /\ \E i \in 1..Len(candles) :
                 /\ df_bos[1][1][i]
                 /\ \E j, k \in SwingsUpTo(swing_highs, i) :
                       /\ swing_highs[j].index < swing_highs[k].index
                       /\ swing_highs[j].level >= candles[i].close
                       /\ swing_highs[k].level < candles[i].close
           /\ \E i \in 1..Len(candles) :
                 /\ ~df_bos[1][2][i]
                 /\ \E k \in 1..Len(swing_lows) : swing_lows[k].index = i
                 /\ \E j \in 1..Len(swing_lows) :
                       /\ swing_lows[j].index < i
                       /\ \A k \in 1..Len(swing_lows) :
                             swing_lows[k].index < i => swing_lows[k].index <= swing_lows[j].index
                       /\ swing_lows[j].level > candles[i].close

---------------------------------------------------------------------------
(* Identification, stated on the columns the earlier stages returned.      *)

\* The BOS rows of a direction.
BosRows(direction) ==
    Flagged(df_bos[1][IF direction = "bullish" THEN 1 ELSE 2])

\* The displacement rows below row b.
DisplacementBelow(b) == {i \in Flagged(df_displacement[1][1]) : i < b}

\* The rows below row d whose candle has the colour opposite to the direction.
OppositeBelow(direction, d) ==
    {i \in 1..(d - 1) :
        IF direction = "bullish"
        THEN candles[i].close < candles[i].open
        ELSE candles[i].close > candles[i].open}

\* The BOS rows of a direction that have a displacement row d below them and
\* an opposite-coloured row below the greatest such d.
Emitting(direction) ==
    {b \in BosRows(direction) :
        /\ DisplacementBelow(b) # {}
        /\ OppositeBelow(direction, SetMax(DisplacementBelow(b))) # {}}

\* The place in the list of the order block of an emitting BOS row.
PlaceOf(direction, b) ==
    (IF direction = "bearish" THEN Cardinality(Emitting("bullish")) ELSE 0)
        + Cardinality({e \in Emitting(direction) : e <= b})

\* C23: identify_order_blocks emits one order block for each BOS row b that
\* has a displacement row below it and an opposite-coloured row below the
\* greatest such displacement row d, and none else; the origin o of the order
\* block is the greatest opposite-coloured row below d, so o < d < b; order
\* blocks of different BOS rows with the same origin are all in the list.
C23_OnePerEmittingBos ==
    pc = "stage_done" =>
        /\ Len(order_blocks) = Cardinality(Emitting("bullish")) + Cardinality(Emitting("bearish"))
        /\ \A direction \in {"bullish", "bearish"} : \A b \in Emitting(direction) :
              LET ob == order_blocks[PlaceOf(direction, b)]
                  d == SetMax(DisplacementBelow(b))
                  o == SetMax(OppositeBelow(direction, d))
              IN  /\ o < d /\ d < b
                  /\ ob.direction = direction
                  /\ ob.created_ts_ms = candles[o].timestamp
                  /\ ob.displacement_range = candles[d].high - candles[d].low
                  /\ ob.atr14 = df_atr[1][o]

\* Two bullish BOS rows with the same origin yield two order blocks, and a
\* BOS row with a displacement row below it yields none, for want of an
\* opposite-coloured row below that displacement row.
C23_Witness ==
    /\ pc = "stage_done"
    /\ \E b1, b2 \in Emitting("bullish") :
          /\ b1 < b2
          /\ order_blocks[PlaceOf("bullish", b1)].created_ts_ms
                = order_blocks[PlaceOf("bullish", b2)].created_ts_ms
    /\ \E direction \in {"bullish", "bearish"} :
          \E b \in BosRows(direction) \ Emitting(direction) : DisplacementBelow(b) # {}

---------------------------------------------------------------------------
(* The level an order block records for its break of structure.            *)

\* The swings of a direction: swing highs for bullish, swing lows for bearish.
SwingsOf(direction) == swing_points[1][IF direction = "bullish" THEN 1 ELSE 2]

\* The swings of a direction with index strictly below row b, as places.
SwingsBelow(direction, b) ==
    {k \in 1..Len(SwingsOf(direction)) : SwingsOf(direction)[k].index < b}

\* The one of them with the greatest index.
LatestSwingBelow(direction, b) ==
    CHOOSE k \in SwingsBelow(direction, b) :
        \A j \in SwingsBelow(direction, b) :
            SwingsOf(direction)[j].index <= SwingsOf(direction)[k].index

\* C24: the bos_level of the bullish order block of BOS row b is the level of
\* the swing high with the greatest index strictly below b, and it is close[b]
\* only when no swing high has an index below b; likewise for a bearish order
\* block with swing lows.
C24_BosLevelIsLatestSwingBelow ==
    pc = "stage_done" =>
        \A direction \in {"bullish", "bearish"} : \A b \in Emitting(direction) :
            LET ob == order_blocks[PlaceOf(direction, b)]
            IN  /\ SwingsBelow(direction, b) # {} =>
                      ob.bos_level = SwingsOf(direction)[LatestSwingBelow(direction, b)].level
                /\ SwingsBelow(direction, b) = {} => ob.bos_level = candles[b].close
                /\ ob.bos_level = candles[b].close => SwingsBelow(direction, b) = {}

\* Two swing highs at different levels lie below the BOS row of a bullish
\* order block, which records the level of the later one.
C24_Witness ==
    /\ pc = "stage_done"
    /\ \E b \in Emitting("bullish") : \E j, k \in SwingsBelow("bullish", b) :
          /\ SwingsOf("bullish")[j].index < SwingsOf("bullish")[k].index
          /\ SwingsOf("bullish")[j].level # SwingsOf("bullish")[k].level
          /\ k = LatestSwingBelow("bullish", b)
          /\ order_blocks[PlaceOf("bullish", b)].bos_level = SwingsOf("bullish")[k].level

---------------------------------------------------------------------------
(* Swing points.  Row r of a batch is the candle with index r - 1.        *)

\* The rows with a full window: index i with w <= i < n - w.
InnerRows(n) == {r \in 1..n : swing_window <= r - 1 /\ r - 1 < n - swing_window}

\* A list of swing points is in increasing index order.
IncreasingIndex(swings) ==
    \A k \in 1..(Len(swings) - 1) : swings[k].index < swings[k + 1].index

\* C25: detect_swing_points flags index i as a swing high exactly when
\* w <= i < n - w and no high in the window i-w .. i+w exceeds high[i], and as
\* a swing low exactly when no low in the window is below low[i]; candles
\* tied for the extreme are all flagged, edge indices never, and each list is
\* in increasing index order.
C25_SwingPointsTieInclusive ==
    swing_points # None =>
        LET swing_highs == swing_points[1][1]
            swing_lows == swing_points[1][2]
            n == Len(candles)
        IN  /\ SwingIndices(swing_highs) =
                  {r \in InnerRows(n) :
                      \A j \in (r - swing_window)..(r + swing_window) :
                          candles[j].high <= candles[r].high}
            /\ SwingIndices(swing_lows) =
                  {r \in InnerRows(n) :
                      \A j \in (r - swing_window)..(r + swing_window) :
                          candles[j].low >= candles[r].low}
            /\ IncreasingIndex(swing_highs) /\ IncreasingIndex(swing_lows)
            /\ \A k \in 1..Len(swing_highs) :
                  swing_highs[k].level = candles[swing_highs[k].index].high
            /\ \A k \in 1..Len(swing_lows) :
                  swing_lows[k].level = candles[swing_lows[k].index].low

\* Two neighbouring rows tied for the highest high are both swing highs, the
\* first row has the lowest low of the batch alone and is no swing low, and
\* the last row has the highest high of the batch alone and is no swing high.
C25_Witness ==
    /\ swing_points # None
    /\ Len(candles) >= 4
    /\ LET swing_highs == swing_points[1][1]
           swing_lows == swing_points[1][2]
           n == Len(candles)
       IN  /\ \E r \in 1..(n - 1) :
                 /\ {r, r + 1} \subseteq SwingIndices(swing_highs)
                 /\ candles[r].high = candles[r + 1].high
           /\ \A r \in 2..n : candles[1].low < candles[r].low
           /\ 1 \notin SwingIndices(swing_lows)
           /\ \A r \in 1..(n - 1) : candles[n].high > candles[r].high
           /\ n \notin SwingIndices(swing_highs)
           /\ Len(swing_lows) >= 2

---------------------------------------------------------------------------
(* Average true range.  Row r is the candle with index r - 1; the value    *)
(* of row r is the fraction df_atr[1][r][1] / df_atr[1][r][2].             *)

\* TR of row r as the claim writes it.
ClaimedTrueRange(r) ==
    IF r = 1
    THEN candles[1].high - candles[1].low
    ELSE SetMax({candles[r].high - candles[r].low,
                 Abs(candles[r].high - candles[r - 1].close),
                 Abs(candles[r].low - candles[r - 1].close)})

\* C26: ATR[0] = TR[0] and ATR[i] = ATR[i-1] + (1/period) * (TR[i] - ATR[i-1])
\* with TR as above, the first value being the seed and no average of the
\* first period values taken; the values of rows 1..m are those calculate_atr
\* gives on the first m rows alone.  With the denominator period^(r-1) of row
\* r, the recurrence reads num[r] = (period - 1) * num[r-1] + TR[r] * den[r-1].
C26_AtrRecurrence ==
    df_atr # None =>
        /\ Len(df_atr[1]) = Len(candles)
        /\ \A r \in 1..Len(candles) :
              /\ df_atr[1][r][2] = Pow(atr_period, r - 1)
              /\ IF r = 1
                 THEN df_atr[1][1][1] = ClaimedTrueRange(1)
                 ELSE df_atr[1][r][1] = (atr_period - 1) * df_atr[1][r - 1][1]
                                           + ClaimedTrueRange(r) * df_atr[1][r - 1][2]
        /\ \A m \in 0..Len(candles) :
              calculate_atr(SubSeq(candles, 1, m)) = SubSeq(df_atr[1], 1, m)

\* The true range of one row is its high less the close before it, that of
\* another row the close before it less its low, both above the row's own
\* range, and the ATR of the last row differs from its true range.
C26_Witness ==
    /\ df_atr # None
    /\ Len(candles) >= 3
    /\ \E r \in 2..Len(candles) :
          /\ ClaimedTrueRange(r) = candles[r].high - candles[r - 1].close
          /\ ClaimedTrueRange(r) > candles[r].high - candles[r].low
    /\ \E r \in 2..Len(candles) :
          /\ ClaimedTrueRange(r) = candles[r - 1].close - candles[r].low
          /\ ClaimedTrueRange(r) > candles[r].high - candles[r].low
    /\ LET n == Len(candles)
       IN  df_atr[1][n][1] # ClaimedTrueRange(n) * df_atr[1][n][2]

---------------------------------------------------------------------------
(* The persisted status over successive runs.                              *)

\* C27: over runs of update_order_blocks on a candle table that only grows
\* by newer candles, the status of a record never goes back (fresh, then
\* touched, then invalid) and a valid_to_ts_ms that is set is never cleared
\* or changed.
C27_PersistedStatusMonotone ==
    [][\A k \in 1..Len(store) :
          /\ k <= Len(store')
          /\ Rank(store'[k].status) >= Rank(store[k].status)
          /\ store[k].valid_to_ts_ms # None =>
                store'[k].valid_to_ts_ms = store[k].valid_to_ts_ms
          /\ store[k].status = "invalid" => store'[k] = store[k]]_vars

\* The last run inserted no record and moved a record on: the table holds a
\* record that existed before the run and that the latest candle invalidated.
C27_Witness ==
    /\ ob_stats.status = "success"
    /\ ob_stats.created = 0
    /\ ob_stats.updated >= 1
    /\ \E k \in 1..Len(store) :
          /\ store[k].status = "invalid"
          /\ store[k].valid_to_ts_ms = Some(candles[Len(candles)].timestamp)

---------------------------------------------------------------------------
(* The level compared against and the level recorded.                      *)

\* C28: on candles with low <= close <= high a candle that is a swing high is
\* no bullish BOS at its own index, so every bullish order block records as
\* bos_level the swing level its BOS candle was compared against, which is
\* strictly below the close of the BOS candle, and the fallback to close[b]
\* is never taken; likewise for bearish order blocks and swing lows.
C28_RecordedLevelIsComparedLevel ==
    /\ df_bos # None =>
          /\ \A r \in 1..Len(candles) :
                candles[r].low <= candles[r].close /\ candles[r].close <= candles[r].high
          /\ \A r \in SwingIndices(swing_points[1][1]) : ~df_bos[1][1][r]
          /\ \A r \in SwingIndices(swing_points[1][2]) : ~df_bos[1][2][r]
    /\ pc = "stage_done" =>
          \A direction \in {"bullish", "bearish"} : \A b \in Emitting(direction) :
              LET ob == order_blocks[PlaceOf(direction, b)]
              IN  /\ SwingsBelow(direction, b) # {}
                  /\ ob.bos_level = LatestLevelUpTo(SwingsOf(direction), b)
                  /\ IF direction = "bullish"
                     THEN ob.bos_level < candles[b].close
                     ELSE ob.bos_level > candles[b].close

\* A bullish order block is emitted, and a candle that is a swing high and
\* closes at its high, above the level of the swing high before it, is no
\* bullish BOS candle.
C28_Witness ==
    /\ pc = "stage_done"
    /\ Emitting("bullish") # {}
    /\ \E r \in SwingIndices(swing_points[1][1]) :
          /\ candles[r].close = candles[r].high
          /\ SwingsBelow("bullish", r) # {}
          /\ SwingsOf("bullish")[LatestSwingBelow("bullish", r)].level < candles[r].close
          /\ ~df_bos[1][1][r]

---------------------------------------------------------------------------
(* track_mitigation applied to its own output.                             *)

\* C29: track_mitigation applied a second time, to the list it returned and
\* the same candles, leaves status and valid_to_ts_ms of every order block as
\* they were.
C29_TrackMitigationIdempotent ==
    pc = "stage_mitigated_twice" =>
        /\ Len(order_blocks) = Len(result)
        /\ \A k \in 1..Len(result) :
              /\ order_blocks[k].status = result[k].status
              /\ order_blocks[k].valid_to_ts_ms = result[k].valid_to_ts_ms

\* The second application has run on a list with a touched order block
\* followed by a candle that does not overlap its zone, and with an invalid
\* order block that two candles closing beyond its zone follow.
C29_Witness ==
    /\ pc = "stage_mitigated_twice"
    /\ \E k \in 1..Len(result) :
          /\ result[k].status = "touched"
          /\ After(candles, result[k].created_ts_ms) \ Overlapping(candles, result[k]) # {}
    /\ \E k \in 1..Len(result) :
          /\ result[k].status = "invalid"
          /\ Cardinality(ClosesBeyond(candles, result[k])) >= 2

---------------------------------------------------------------------------
(* The arguments of _calculate_fifo_pnl after the call.                    *)

\* C30: _calculate_fifo_pnl leaves the buy and sell trade records passed to
\* it unchanged, so a second call with the same lists returns what the first
\* call returned.
C30_ArgumentsUnchanged ==
    fifo_pc = "done" =>
        /\ buy_trades = buy_trades0
        /\ fifo_calls = 2 => realized_pnl = first_pnl

====
